---- MODULE Spec2Model ----
(***************************************************************************)
(* Iron-fly ladder strategy engine of meetsang/spx-bot.                    *)
(*                                                                         *)
(* Two engines are modelled, selected by the variable version:             *)
(*   "v2"       src/SPX_9IF_0DTE_v2.py       (state.json, no rolling)      *)
(*   "not_used" src/SPX_9IF_0DTE_not_used.py (rolling, no state store)     *)
(*                                                                         *)
(* Money is held in cents (3.20 is 320); strikes are whole index points.   *)
(* An optional value (Python's None) is a sequence: << >> is None and      *)
(* <<v>> is the value v.  A Python dict that is iterated (active_flies,    *)
(* per_if_pnl) is a sequence in insertion order with unique keys.          *)
(***************************************************************************)
EXTENDS Integers, Sequences, FiniteSets, TLC

VARIABLES
    version,        \* which engine runs
    pc,             \* position of the process in run()
    cfg,            \* Config
    clock_ok,       \* is_time_to_enter(): wall clock is past the entry time
    options,        \* chain[expiry]: the option contracts of the target expiry
    atm_body,       \* anchor of the ladder (<< >> before it is derived)
    entered_today,  \* StrategyState.entered_today
    expiry,         \* StrategyState.expiry
    active_flies,   \* StrategyState.active_flies, insertion-ordered dict
    closed_flies,   \* StrategyState.closed_flies, body -> IronFly
    per_if_pnl,     \* StrategyState.per_if_pnl, insertion-ordered dict
    total_pnl,      \* StrategyState.total_pnl
    min_net_pnl,    \* StrategyState.min_net_pnl
    max_net_pnl,    \* StrategyState.max_net_pnl
    data,           \* result of the last mids_for_symbols of stream_and_mark
    disk,           \* state.json: << >> when the file does not exist
    ladder,         \* result of the last construct_ladder call
    cycle,          \* what the last step of the loop did (orders, rolls)
    observed,       \* aggregate P&L values handed to update_pnl_extremes
    placed,         \* number of times a ladder entry opened positions (0..2)
    anchor,         \* anchor of the ladder that was placed last
    halt,           \* "no", "fired" (portfolio stop fired, positions remain)
                    \* or "halted" (fired and every position closed)
    saved_flies     \* active_flies as the last save_state call read it

vars == <<version, pc, cfg, clock_ok, options, atm_body, entered_today, expiry,
          active_flies, closed_flies, per_if_pnl, total_pnl, min_net_pnl,
          max_net_pnl, data, disk, ladder, cycle, observed, placed, anchor, halt,
          saved_flies>>

-----------------------------------------------------------------------------
(* Bounds of the model *)

\* number of positions of the ladder the engines place: n_below + n_above + 1
Rungs == 3
\* Config.n_below and Config.n_above of the engine runs
NBelow == Rungs \div 2
NAbove == (Rungs - 1) \div 2
\* largest n_below / n_above and step tried on construct_ladder alone
MaxCount == 2
MaxStep == 2
\* longest sequence of aggregate P&L observations
MaxObs == 3
\* Config.max_quote_timeouts of the engine runs and of the mids_for_symbols calls
MaxQuoteTimeouts == 2

(* Program constants *)

Step == 5
Width == 60
PerIfStop == 500
PortfolioStop == 4000

None == << >>
Some(v) == <<v>>
IsNone(o) == o = << >>
Val(o) == o[1]

Today == "D1"

-----------------------------------------------------------------------------
(* Arithmetic helpers *)

Abs(x) == IF x < 0 THEN -x ELSE x

\* n / d rounded to an integer, ties away from zero (Decimal ROUND_HALF_UP)
RoundHalfUpDiv(n, d) ==
    IF n >= 0 THEN (2 * n + d) \div (2 * d)
    ELSE -((2 * (-n) + d) \div (2 * d))

\* n / d rounded to an integer, ties to the even neighbour (Decimal default
\* ROUND_HALF_EVEN and Python's round())
RoundHalfEvenDiv(n, d) ==
    LET q == n \div d
        r == n - q * d
    IN  IF 2 * r < d THEN q
        ELSE IF 2 * r > d THEN q + 1
        ELSE IF q % 2 = 0 THEN q ELSE q + 1

\* round_to_nickel(value) with value in cents: the nearest multiple of 5 cents
round_to_nickel(value) == RoundHalfUpDiv(value, 5) * 5

\* Decimal(x).quantize(Decimal("0.01"), rounding=ROUND_HALF_UP), x in
\* half-cents, result in cents
quantize_cent_half_up(halfcents) == RoundHalfUpDiv(halfcents, 2)

\* Decimal(x).quantize(Decimal("0.01")), x in half-cents, result in cents
quantize_cent(halfcents) == RoundHalfEvenDiv(halfcents, 2)

RECURSIVE SumSeq(_)
SumSeq(s) == IF s = << >> THEN 0 ELSE Head(s) + SumSeq(Tail(s))

RECURSIVE Insert(_, _)
Insert(x, s) ==
    IF s = << >> THEN <<x>>
    ELSE IF x <= Head(s) THEN <<x>> \o s
    ELSE <<Head(s)>> \o Insert(x, Tail(s))

\* sorted(list)
RECURSIVE sorted(_)
sorted(s) == IF s = << >> THEN << >> ELSE Insert(Head(s), sorted(Tail(s)))

RECURSIVE SetToSeq(_)
SetToSeq(S) ==
    IF S = {} THEN << >>
    ELSE LET x == CHOOSE y \in S : \A z \in S : y <= z
         IN  <<x>> \o SetToSeq(S \ {x})

Range(s) == {s[i] : i \in 1..Len(s)}

-----------------------------------------------------------------------------
(* Insertion-ordered dicts keyed by body *)

Keys(d) == {d[i].body : i \in 1..Len(d)}
KeyList(d) == [i \in 1..Len(d) |-> d[i].body]
HasKey(d, k) == \E i \in 1..Len(d) : d[i].body = k
Get(d, k) == d[CHOOSE i \in 1..Len(d) : d[i].body = k]
Set(d, e) ==
    IF HasKey(d, e.body)
    THEN [i \in 1..Len(d) |-> IF d[i].body = e.body THEN e ELSE d[i]]
    ELSE Append(d, e)
RECURSIVE Pop(_, _)
Pop(d, k) ==
    IF d = << >> THEN << >>
    ELSE IF Head(d).body = k THEN Pop(Tail(d), k)
    ELSE <<Head(d)>> \o Pop(Tail(d), k)

\* closed_flies[body] = fly on a dict whose order is never read
SetClosed(c, fly) ==
    [b \in (DOMAIN c) \cup {fly.body} |-> IF b = fly.body THEN fly ELSE c[b]]

-----------------------------------------------------------------------------
(* Instrument catalog: chain[expiry] is a set of option contracts.  A      *)
(* contract is [strike, option_type]; its streamer symbol is the contract. *)

Opt(k, t) == [strike |-> k, option_type |-> t]

\* body strikes the catalog lists, and the wings 60 points away from them
BodyGrid == {6390, 6395, 6400, 6405, 6410}
\* strikes the catalog lists between the 5-point grid, with their wings
OffGrid == {6394, 6406}
ChainStrikes ==
    LET bodies == BodyGrid \cup OffGrid
    IN  bodies \cup {b - Width : b \in bodies} \cup {b + Width : b \in bodies}
FullChain == {Opt(k, t) : k \in ChainStrikes, t \in {"C", "P"}}
\* a catalog that does not list the call at 6465, the long call of body 6405
ThinChain == FullChain \ {Opt(6465, "C")}
Chains == {FullChain, ThinChain}

\* IronFly dataclass
IronFly(body, width, qty, legs, entry_credit, open) ==
    [body |-> body, width |-> width, qty |-> qty,
     call_short_opt |-> legs[1], call_long_opt |-> legs[2],
     put_short_opt |-> legs[3], put_long_opt |-> legs[4],
     entry_credit |-> entry_credit, open |-> open]

\* IronFly.streamer_symbols
streamer_symbols(fly) ==
    <<fly.call_short_opt, fly.call_long_opt, fly.put_short_opt, fly.put_long_opt>>

\* build_if_options that looks for the put wing above the body
build_if_options_put_wing_above(opts, body, width) ==
    LET legs == <<Opt(body, "C"), Opt(body + width, "C"),
                  Opt(body, "P"), Opt(body + width, "P")>>
    IN  IF \A i \in 1..4 : legs[i] \in opts THEN Some(legs) ELSE None

\* build_if_options: (call_body, call_wing, put_body, put_wing), or None when
\* next() finds no contract and raises StopIteration
build_if_options(opts, body, width) ==
    LET legs == <<Opt(body, "C"), Opt(body + width, "C"),
                  Opt(body, "P"), Opt(body - width, "P")>>
    IN  IF \A i \in 1..4 : legs[i] \in opts THEN Some(legs) ELSE None

\* the body list of construct_ladder without the call of sorted()
ladder_bodies_unsorted(atm, n_below, n_above, step) ==
    <<atm>> \o [i \in 1..n_below |-> atm - i * step]
            \o [i \in 1..n_above |-> atm + i * step]

\* the body list of construct_ladder, before and after sorted()
ladder_bodies(atm, n_below, n_above, step) ==
    sorted(<<atm>> \o [i \in 1..n_below |-> atm - i * step]
                   \o [i \in 1..n_above |-> atm + i * step])

\* the loop of construct_ladder leaving out a body whose legs are not found
RECURSIVE build_flies_partial(_, _, _)
build_flies_partial(opts, bodies, width) ==
    IF bodies = << >> THEN Some(<< >>)
    ELSE LET legs == build_if_options(opts, Head(bodies), width)
             rest == build_flies_partial(opts, Tail(bodies), width)
         IN  IF IsNone(legs) THEN rest
             ELSE Some(<<IronFly(Head(bodies), width, 1, Val(legs), 0, TRUE)>> \o Val(rest))

\* the loop of construct_ladder over the sorted bodies
RECURSIVE build_flies(_, _, _)
build_flies(opts, bodies, width) ==
    IF bodies = << >> THEN Some(<< >>)
    ELSE LET legs == build_if_options(opts, Head(bodies), width)
             rest == build_flies(opts, Tail(bodies), width)
         IN  IF IsNone(legs) \/ IsNone(rest) THEN None
             ELSE Some(<<IronFly(Head(bodies), width, 1, Val(legs), 0, TRUE)>> \o Val(rest))

\* construct_ladder: the list of flies, or None when build_if_options raises
construct_ladder(opts, atm, c) ==
    build_flies(opts, ladder_bodies(atm, c.n_below, c.n_above, c.step), c.width)

-----------------------------------------------------------------------------
(* Quotes.  mids_for_symbols returns, per requested symbol, a mid that is  *)
(* None or a multiple of 5 cents; the engine reads nothing else of it.     *)

Quote(cs, cl, ps, pl) == [cs |-> cs, cl |-> cl, ps |-> ps, pl |-> pl]

\* mids at entry: credit (2.00 + 1.80) - (0.30 + 0.30) = 3.20
EntryQuote == Quote(Some(200), Some(30), Some(180), Some(30))
\* mids under stress: credit to close 2003.20, a loss of 2000.00 on a fly
\* entered at 3.20, so that two such flies reach the portfolio stop exactly
StressQuote == Quote(Some(100200), Some(30), Some(100180), Some(30))
\* the long call produced no two-sided quote in the call
MissingQuote == Quote(Some(200), None, Some(180), Some(30))

OpenQuotes == {EntryQuote, MissingQuote}
MarkQuotes == {EntryQuote, StressQuote, MissingQuote}
CloseQuotes == {StressQuote, MissingQuote}

\* the mids of one fly's four legs as mids_for_symbols returns them
QuoteData(fly, q) ==
    (fly.call_short_opt :> q.cs) @@ (fly.call_long_opt :> q.cl)
        @@ (fly.put_short_opt :> q.ps) @@ (fly.put_long_opt :> q.pl)

\* the credit of a fly from a symbol -> mid mapping: None when a leg has no
\* mid (or no entry), else round_to_nickel((cs + ps) - (cl + pl))
mid_credit(fly, d) ==
    IF \E s \in {fly.call_short_opt, fly.call_long_opt, fly.put_short_opt,
                 fly.put_long_opt} : s \notin DOMAIN d \/ IsNone(d[s])
    THEN None
    ELSE Some(round_to_nickel((Val(d[fly.call_short_opt]) + Val(d[fly.put_short_opt]))
                              - (Val(d[fly.call_long_opt]) + Val(d[fly.put_long_opt]))))

\* if_mid_credit
if_mid_credit(fly, d) == mid_credit(fly, d)

\* an order handed to account.place_order
Order(kind, fly, price, dry, accepted) ==
    [kind |-> kind, body |-> fly.body, price |-> price, dry_run |-> dry,
     accepted |-> accepted]

\* open_if that places its order live whatever the dry-run flag is
open_if_live(fly, d, accepted, dry) ==
    LET credit == if_mid_credit(fly, d)
    IN  IF IsNone(credit)
        THEN [ok |-> FALSE, fly |-> fly, orders |-> << >>]
        ELSE IF accepted
        THEN [ok |-> TRUE,
              fly |-> [fly EXCEPT !.entry_credit = Val(credit), !.open = TRUE],
              orders |-> <<Order("open", fly, Val(credit), FALSE, TRUE)>>]
        ELSE [ok |-> FALSE, fly |-> fly,
              orders |-> <<Order("open", fly, Val(credit), FALSE, FALSE)>>]

\* open_if: d is what mids_for_symbols returns for the fly's legs, accepted is
\* whether place_order returns (TRUE) or raises (FALSE)
open_if(fly, d, accepted, dry) ==
    LET credit == if_mid_credit(fly, d)
    IN  IF IsNone(credit)
        THEN [ok |-> FALSE, fly |-> fly, orders |-> << >>]
        ELSE IF accepted
        THEN [ok |-> TRUE,
              fly |-> [fly EXCEPT !.entry_credit = Val(credit), !.open = TRUE],
              orders |-> <<Order("open", fly, Val(credit), dry, TRUE)>>]
        ELSE [ok |-> FALSE, fly |-> fly,
              orders |-> <<Order("open", fly, Val(credit), dry, FALSE)>>]

\* close_if that prices a leg without a mid at zero instead of returning
close_if_unpriced(fly, d, accepted, dry) ==
    LET mid(s) == IF s \in DOMAIN d /\ ~IsNone(d[s]) THEN Val(d[s]) ELSE 0
        debit == round_to_nickel((mid(fly.call_short_opt) + mid(fly.put_short_opt))
                                 - (mid(fly.call_long_opt) + mid(fly.put_long_opt)))
    IN  IF accepted
        THEN [ok |-> TRUE, fly |-> [fly EXCEPT !.open = FALSE],
              orders |-> <<Order("close", fly, debit, dry, TRUE)>>]
        ELSE [ok |-> FALSE, fly |-> fly,
              orders |-> <<Order("close", fly, debit, dry, FALSE)>>]

\* close_if
close_if(fly, d, accepted, dry) ==
    LET debit == mid_credit(fly, d)
    IN  IF IsNone(debit)
        THEN [ok |-> FALSE, fly |-> fly, orders |-> << >>]
        ELSE IF accepted
        THEN [ok |-> TRUE, fly |-> [fly EXCEPT !.open = FALSE],
              orders |-> <<Order("close", fly, Val(debit), dry, TRUE)>>]
        ELSE [ok |-> FALSE, fly |-> fly,
              orders |-> <<Order("close", fly, Val(debit), dry, FALSE)>>]

-----------------------------------------------------------------------------
(* Status, exits, roll *)

\* compute_strategy_status with the subtraction the wrong way round
RECURSIVE per_if_entries_mid_minus_entry(_, _)
per_if_entries_mid_minus_entry(active, fly_mids) ==
    IF active = << >> THEN << >>
    ELSE LET fly == Head(active)
             rest == per_if_entries_mid_minus_entry(Tail(active), fly_mids)
         IN  IF ~fly.open \/ fly.body \notin DOMAIN fly_mids THEN rest
             ELSE <<[body |-> fly.body,
                     pnl |-> quantize_cent_half_up(
                                 2 * (fly_mids[fly.body] - fly.entry_credit))]>>
                  \o rest

\* per_if_pnl as compute_strategy_status builds it: one entry per open fly of
\* active_flies that has a mid in fly_mids, in the order of active_flies
RECURSIVE per_if_entries(_, _)
per_if_entries(active, fly_mids) ==
    IF active = << >> THEN << >>
    ELSE LET fly == Head(active)
             rest == per_if_entries(Tail(active), fly_mids)
         IN  IF ~fly.open \/ fly.body \notin DOMAIN fly_mids THEN rest
             ELSE <<[body |-> fly.body,
                     pnl |-> quantize_cent_half_up(
                                 2 * (fly.entry_credit - fly_mids[fly.body]))]>>
                  \o rest

\* compute_strategy_status
compute_strategy_status(active, fly_mids) ==
    LET entries == per_if_entries(active, fly_mids)
        total == SumSeq([i \in 1..Len(entries) |-> entries[i].pnl])
    IN  [per_if_pnl |-> entries, total_pnl |-> quantize_cent_half_up(2 * total)]

\* fly_mids of stream_and_mark: body -> round_to_nickel(mid credit) for every
\* fly of active_flies whose four legs have a mid in d
RECURSIVE fly_mids_of(_, _)
fly_mids_of(active, d) ==
    IF active = << >> THEN << >>
    ELSE LET fly == Head(active)
             mid == mid_credit(fly, d)
             rest == fly_mids_of(Tail(active), d)
         IN  IF IsNone(mid) THEN rest ELSE (fly.body :> Val(mid)) @@ rest

\* evaluate_exit_rules with the per-position stops tested before the
\* portfolio stop
evaluate_exit_rules_per_if_first(active, per_if, total, c) ==
    LET stopped == KeyList(SelectSeq(per_if, LAMBDA e : -e.pnl >= c.per_if_stop))
    IN  IF stopped # << >> THEN [to_close |-> stopped, portfolio_stop |-> FALSE]
        ELSE IF -total >= c.portfolio_stop
        THEN [to_close |-> KeyList(active), portfolio_stop |-> TRUE]
        ELSE [to_close |-> << >>, portfolio_stop |-> FALSE]

\* evaluate_exit_rules with the sign of the per-position loss dropped
evaluate_exit_rules_profit_stop(active, per_if, total, c) ==
    IF -total >= c.portfolio_stop
    THEN [to_close |-> KeyList(active), portfolio_stop |-> TRUE]
    ELSE [to_close |-> KeyList(SelectSeq(per_if, LAMBDA e : e.pnl >= c.per_if_stop)),
          portfolio_stop |-> FALSE]

\* evaluate_exit_rules that still filters by the per-position stop when the
\* portfolio stop is hit
evaluate_exit_rules_stopped_only(active, per_if, total, c) ==
    [to_close |-> KeyList(SelectSeq(per_if, LAMBDA e : -e.pnl >= c.per_if_stop)),
     portfolio_stop |-> -total >= c.portfolio_stop]

\* evaluate_exit_rules
evaluate_exit_rules(active, per_if, total, c) ==
    IF -total >= c.portfolio_stop
    THEN [to_close |-> KeyList(active), portfolio_stop |-> TRUE]
    ELSE [to_close |-> KeyList(SelectSeq(per_if, LAMBDA e : -e.pnl >= c.per_if_stop)),
          portfolio_stop |-> FALSE]

\* evaluate_entry_window
evaluate_entry_window(time_ok, entered) == time_ok /\ ~entered

\* roll_replacement moving one strike point instead of one step
roll_new_body_one_point(active, hit_body, step) ==
    LET active_bodies == sorted(KeyList(active))
        lowest == active_bodies[1]
        highest == active_bodies[Len(active_bodies)]
    IN  IF hit_body = lowest THEN highest + 1
        ELSE IF hit_body = highest THEN lowest - 1
        ELSE IF Abs(hit_body - lowest) < Abs(hit_body - highest)
             THEN highest + 1
             ELSE lowest - 1

\* roll_replacement opening beyond the extremity nearer to the closed body
roll_new_body_nearer_side(active, hit_body, step) ==
    LET active_bodies == sorted(KeyList(active))
        lowest == active_bodies[1]
        highest == active_bodies[Len(active_bodies)]
    IN  IF hit_body = lowest THEN highest + step
        ELSE IF hit_body = highest THEN lowest - step
        ELSE IF Abs(hit_body - lowest) < Abs(hit_body - highest)
             THEN lowest - step
             ELSE highest + step

\* the body roll_replacement opens, from the flies still in active_flies
roll_new_body(active, hit_body, step) ==
    LET active_bodies == sorted(KeyList(active))
        lowest == active_bodies[1]
        highest == active_bodies[Len(active_bodies)]
    IN  IF hit_body = lowest THEN highest + step
        ELSE IF hit_body = highest THEN lowest - step
        ELSE IF Abs(hit_body - lowest) < Abs(hit_body - highest)
             THEN highest + step
             ELSE lowest - step

\* roll_replacement on the loop state st = [active, closed, orders, rolls,
\* raised]: q and accepted are the quotes and the gateway's answer of open_if
roll_replacement(opts, hit_body, st, c, q, accepted) ==
    IF st.active = << >> THEN st
    ELSE LET new_body == roll_new_body(st.active, hit_body, c.step)
             legs == build_if_options(opts, new_body, c.width)
         IN  IF IsNone(legs) THEN [st EXCEPT !.raised = TRUE]
             ELSE LET new_fly == IronFly(new_body, c.width, 1, Val(legs), 0, TRUE)
                      r == open_if(new_fly, QuoteData(new_fly, q), accepted, c.dry_run)
                  IN  [st EXCEPT
                         !.active = IF r.ok THEN Set(st.active, r.fly) ELSE @,
                         !.orders = @ \o r.orders,
                         !.rolls = Append(@, [hit_body |-> hit_body,
                                              new_body |-> new_body,
                                              opened |-> r.ok,
                                              prior |-> st.before[Len(st.before)].bodies,
                                              size_after |->
                                                  Len(IF r.ok THEN Set(st.active, r.fly)
                                                      ELSE st.active)])]

-----------------------------------------------------------------------------
(* State store *)

\* save_state that leaves the closed bodies out of the payload
save_state_without_closed(exp, entered, active, closed, total) ==
    LET open_flies == SelectSeq(active, LAMBDA f : f.open)
    IN  [expiry |-> exp,
         entered_today |-> entered,
         active_flies |-> [i \in 1..Len(open_flies) |->
             [body |-> open_flies[i].body,
              width |-> open_flies[i].width,
              qty |-> open_flies[i].qty,
              entry_credit |-> quantize_cent(2 * open_flies[i].entry_credit)]],
         closed_flies |-> << >>,
         total_pnl |-> quantize_cent(2 * total)]

\* the payload save_state writes to state.json
save_state(exp, entered, active, closed, total) ==
    LET open_flies == SelectSeq(active, LAMBDA f : f.open)
    IN  [expiry |-> exp,
         entered_today |-> entered,
         active_flies |-> [i \in 1..Len(open_flies) |->
             [body |-> open_flies[i].body,
              width |-> open_flies[i].width,
              qty |-> open_flies[i].qty,
              entry_credit |-> quantize_cent(2 * open_flies[i].entry_credit)]],
         closed_flies |-> SetToSeq(DOMAIN closed),
         total_pnl |-> quantize_cent(2 * total)]

\* a default state whose expiry is left unset
default_state_unset_expiry ==
    [expiry |-> None, entered_today |-> FALSE,
     active_flies |-> << >>, closed_flies |-> << >>, total_pnl |-> 0]

\* the dict load_state returns when state.json does not exist
default_state == [expiry |-> Some(Today), entered_today |-> FALSE,
                  active_flies |-> << >>, closed_flies |-> << >>, total_pnl |-> 0]

\* load_state on state.json dsk: the dict it returns and state.json after
\* it.  Without a file it resets the state to today's empty session, saves
\* that and returns the default dict.
load_state(dsk) ==
    IF IsNone(dsk)
    THEN [found |-> FALSE, data |-> default_state,
          disk |-> Some(save_state(Some(Today), FALSE, << >>, << >>, 0))]
    ELSE [found |-> TRUE, data |-> Val(dsk), disk |-> dsk]

\* rehydrate_from_state's test with the expiry of the snapshot not compared
snapshot_entered_any_expiry(loaded) == loaded.active_flies # << >>

\* rehydrate_from_state: bool(active) and expiry_str == today_str
snapshot_entered(loaded) ==
    loaded.active_flies # << >> /\ loaded.expiry = Some(Today)

\* rehydrate_from_state giving up at the first body whose legs are not found
RECURSIVE rehydrate_flies_abort(_, _, _)
rehydrate_flies_abort(items, opts, active) ==
    IF items = << >> THEN active
    ELSE LET item == Head(items)
             legs == build_if_options(opts, item.body, item.width)
         IN  IF IsNone(legs) THEN active
             ELSE rehydrate_flies_abort(Tail(items), opts,
                      Set(active, IronFly(item.body, item.width, item.qty,
                                          Val(legs), item.entry_credit, TRUE)))

\* rehydrate_from_state that does not read entry_credit from the snapshot
RECURSIVE rehydrate_flies_no_credit(_, _, _)
rehydrate_flies_no_credit(items, opts, active) ==
    IF items = << >> THEN active
    ELSE LET item == Head(items)
             legs == build_if_options(opts, item.body, item.width)
         IN  IF IsNone(legs) THEN rehydrate_flies_no_credit(Tail(items), opts, active)
             ELSE rehydrate_flies_no_credit(Tail(items), opts,
                      Set(active, IronFly(item.body, item.width, item.qty,
                                          Val(legs), 0, TRUE)))

\* the loop of rehydrate_from_state over the snapshot's active_flies
RECURSIVE rehydrate_flies(_, _, _)
rehydrate_flies(items, opts, active) ==
    IF items = << >> THEN active
    ELSE LET item == Head(items)
             legs == build_if_options(opts, item.body, item.width)
         IN  IF IsNone(legs) THEN rehydrate_flies(Tail(items), opts, active)
             ELSE rehydrate_flies(Tail(items), opts,
                      Set(active, IronFly(item.body, item.width, item.qty,
                                          Val(legs), item.entry_credit, TRUE)))

-----------------------------------------------------------------------------
(* Expirations: chain.keys() is a set of dates *)

Yesterday == "D0"
Tomorrow == "D2"
Later == "D3"

\* the dates in calendar order
Calendar == <<Yesterday, Today, Tomorrow, Later>>
DayNo(d) == CHOOSE i \in 1..Len(Calendar) : Calendar[i] = d

\* sorted(chain.keys())
sorted_expirations(exps) == SelectSeq(Calendar, LAMBDA d : d \in exps)

\* the expirations get_chain lists: none, an expired one only, future ones
\* only, with and without an expired one, and today's among others
ExpiryCatalogs ==
    {{}, {Yesterday}, {Tomorrow, Later}, {Yesterday, Tomorrow, Later},
     {Yesterday, Today, Tomorrow}}

\* pick_0dte choosing the first expiration listed
pick_0dte_first(exps) ==
    IF exps = {} THEN None ELSE Some(sorted_expirations(exps)[1])

\* v2 pick_0dte: today's expiration, or None
pick_0dte(exps) ==
    LET same_day == SelectSeq(sorted_expirations(exps), LAMBDA d : d = Today)
    IN  IF same_day # << >> THEN Some(same_day[1]) ELSE None

\* the rolling engine's pick_0_or_1_dte: today's expiration, else the first
\* later one, else the first one listed; None stands for the IndexError of
\* exps[0] on an empty catalog
pick_0_or_1_dte(exps) ==
    LET sorted_exps == sorted_expirations(exps)
        same_day == SelectSeq(sorted_exps, LAMBDA d : d = Today)
        future == SelectSeq(sorted_exps, LAMBDA d : DayNo(d) > DayNo(Today))
    IN  IF same_day # << >> THEN Some(same_day[1])
        ELSE IF future # << >> THEN Some(future[1])
        ELSE IF sorted_exps # << >> THEN Some(sorted_exps[1])
        ELSE None

-----------------------------------------------------------------------------
(* Inputs of a run *)

\* SPX mark in cents as the streamer reports it, or None when no Trade or
\* Quote event arrives
Spots == {None, Some(640380)}

\* get_underlying_spot_mark_rounded5: round(spot / 5) * 5
get_underlying_spot_mark_rounded5(spot) ==
    IF IsNone(spot) THEN None ELSE Some(RoundHalfEvenDiv(Val(spot), 500) * 5)

\* the fallback of run(): the strike at the middle of the sorted strikes
\* (nearest(strikes, approx) is approx itself)
median_strike(opts) ==
    LET strikes == SetToSeq({o.strike : o \in opts})
    IN  strikes[(Len(strikes) \div 2) + 1]

derive_atm_body(opts, spot) ==
    LET atm == get_underlying_spot_mark_rounded5(spot)
    IN  IF IsNone(atm) THEN median_strike(opts) ELSE Val(atm)

\* Inputs of one open_if / close_if call: the quotes mids_for_symbols returns
\* and the gateway's answer.  The gateway is not asked when pricing fails, and
\* a roll is not attempted when the close failed, so those inputs are fixed.
OpenInputs ==
    {i \in [q : OpenQuotes, accepted : BOOLEAN] : i.q = MissingQuote => i.accepted}
CloseInputs ==
    {i \in [cq : CloseQuotes, caccepted : BOOLEAN] : i.cq = MissingQuote => i.caccepted}
CloseRollInputs ==
    {i \in [cq : CloseQuotes, caccepted : BOOLEAN, q : OpenQuotes, accepted : BOOLEAN] :
        /\ i.cq = MissingQuote => i.caccepted
        /\ i.q = MissingQuote => i.accepted
        /\ (i.cq = MissingQuote \/ ~i.caccepted) => (i.q = EntryQuote /\ i.accepted)}

EngineConfig == [n_below |-> NBelow, n_above |-> NAbove, step |-> Step,
                 width |-> Width, per_if_stop |-> PerIfStop * 100,
                 portfolio_stop |-> PortfolioStop * 100, dry_run |-> TRUE,
                 max_quote_timeouts |-> MaxQuoteTimeouts]

NoCycle == [kind |-> "none", portfolio_stop |-> FALSE, to_close |-> << >>,
            orders |-> << >>, rolls |-> << >>, before |-> << >>,
            attempts |-> << >>, found |-> FALSE, loaded |-> None,
            exps |-> {}, picked |-> None]

-----------------------------------------------------------------------------
(* Loops of run() *)

\* for fly in ladder: ok = open_if(fly); if ok: active_flies[fly.body] = fly
RECURSIVE open_loop(_, _, _, _, _)
open_loop(flies, inp, i, st, dry) ==
    IF i > Len(flies) THEN st
    ELSE LET r == open_if(flies[i], QuoteData(flies[i], inp[i].q), inp[i].accepted, dry)
         IN  open_loop(flies, inp, i + 1,
                 [active |-> IF r.ok THEN Set(st.active, r.fly) ELSE st.active,
                  orders |-> st.orders \o r.orders,
                  opened |-> st.opened + (IF r.ok THEN 1 ELSE 0)],
                 dry)

\* the portfolio-stop loop of v2: a fly moves to closed_flies only when
\* close_if succeeded
RECURSIVE close_all_v2(_, _, _, _, _)
close_all_v2(flies, inp, i, st, dry) ==
    IF i > Len(flies) THEN st
    ELSE LET r == close_if(flies[i], QuoteData(flies[i], inp[i].cq), inp[i].caccepted, dry)
         IN  close_all_v2(flies, inp, i + 1,
                 [st EXCEPT
                    !.active = IF r.ok THEN Pop(@, flies[i].body) ELSE @,
                    !.closed = IF r.ok THEN SetClosed(@, r.fly) ELSE @,
                    !.orders = @ \o r.orders,
                    !.attempts = Append(@, [body |-> flies[i].body,
                                            mids |-> inp[i].cq])],
                 dry)

\* the portfolio-stop loop of the rolling engine: the result of close_if is
\* not read, every fly moves to closed_flies
RECURSIVE close_all_not_used(_, _, _, _, _)
close_all_not_used(flies, inp, i, st, dry) ==
    IF i > Len(flies) THEN st
    ELSE LET r == close_if(flies[i], QuoteData(flies[i], inp[i].cq), inp[i].caccepted, dry)
         IN  close_all_not_used(flies, inp, i + 1,
                 [st EXCEPT
                    !.active = Pop(@, flies[i].body),
                    !.closed = SetClosed(@, r.fly),
                    !.orders = @ \o r.orders,
                    !.attempts = Append(@, [body |-> flies[i].body,
                                            mids |-> inp[i].cq])],
                 dry)

\* the per-position loop: for body in to_close ...; with_roll is the rolling
\* engine's call of roll_replacement after a successful close.  The loop ends
\* early when roll_replacement raises.
RECURSIVE close_loop(_, _, _, _, _, _, _)
close_loop(to_close, inp, i, st, opts, c, with_roll) ==
    IF i > Len(to_close) \/ st.raised THEN st
    ELSE LET body == to_close[i]
         IN  IF ~HasKey(st.active, body) \/ ~Get(st.active, body).open
             THEN close_loop(to_close, inp, i + 1, st, opts, c, with_roll)
             ELSE LET fly == Get(st.active, body)
                      r == close_if(fly, QuoteData(fly, inp[i].cq), inp[i].caccepted, c.dry_run)
                      closed_st == [st EXCEPT
                                      !.active = Pop(@, body),
                                      !.closed = SetClosed(@, r.fly),
                                      !.orders = @ \o r.orders,
                                      !.attempts = Append(@, [body |-> body,
                                                              mids |-> inp[i].cq]),
                                      !.before = Append(@, [body |-> body,
                                                            bodies |-> Keys(st.active)])]
                  IN  IF ~r.ok
                      THEN close_loop(to_close, inp, i + 1,
                               [st EXCEPT !.orders = @ \o r.orders,
                                          !.attempts = Append(@, [body |-> body,
                                                                  mids |-> inp[i].cq])],
                               opts, c, with_roll)
                      ELSE close_loop(to_close, inp, i + 1,
                               IF with_roll
                               THEN roll_replacement(opts, body, closed_st, c,
                                                     inp[i].q, inp[i].accepted)
                               ELSE closed_st,
                               opts, c, with_roll)

LoopState == [active |-> active_flies, closed |-> closed_flies,
              orders |-> << >>, rolls |-> << >>, before |-> << >>,
              attempts |-> << >>, raised |-> FALSE]

-----------------------------------------------------------------------------
(* The engines *)

Bump(n) == IF n < 2 THEN n + 1 ELSE n

\* the session's halt record after an exit step: fired_now is whether the
\* portfolio stop fired in this step, active is active_flies after it
Halt(h, fired_now, active) ==
    IF h = "halted" THEN "halted"
    ELSE IF h = "fired" \/ fired_now
    THEN (IF active = << >> THEN "halted" ELSE "fired")
    ELSE "no"

FreshMemory ==
    /\ options = {}
    /\ atm_body = None
    /\ entered_today = FALSE
    /\ expiry = None
    /\ active_flies = << >>
    /\ closed_flies = << >>
    /\ per_if_pnl = << >>
    /\ total_pnl = 0
    /\ min_net_pnl = 0
    /\ max_net_pnl = 0
    /\ data = << >>
    /\ ladder = None
    /\ cycle = NoCycle

InitEngine(ver) ==
    /\ version = ver
    /\ pc = "start"
    /\ cfg = EngineConfig
    /\ clock_ok = FALSE
    /\ FreshMemory
    /\ disk = None
    /\ observed = << >>
    /\ placed = 0
    /\ anchor = None
    /\ halt = "no"
    /\ saved_flies = << >>

\* the wall clock passes the entry time
Tick ==
    /\ version \in {"v2", "not_used"}
    /\ ~clock_ok
    /\ clock_ok' = TRUE
    /\ UNCHANGED <<version, pc, cfg, options, atm_body, entered_today, expiry,
                   active_flies, closed_flies, per_if_pnl, total_pnl, min_net_pnl,
                   max_net_pnl, data, disk, ladder, cycle, observed, placed, anchor,
                   halt, saved_flies>>

\* v2 run() up to the loop: get_chain, pick_0dte ("Aborting: 0DTE not
\* available" when it returns None), rehydrate_from_state (load_state creates
\* and saves the default state when state.json is missing)
StartV2 ==
    /\ version = "v2"
    /\ pc = "start"
    /\ \E exps \in ExpiryCatalogs :
        IF IsNone(pick_0dte(exps))
        THEN /\ pc' = "done"
             /\ cycle' = [NoCycle EXCEPT !.kind = "abort", !.exps = exps]
             /\ UNCHANGED <<options, entered_today, expiry, active_flies, disk,
                            saved_flies>>
        ELSE \E chain \in Chains :
            LET ld == load_state(disk)
                loaded == ld.data
                entered == snapshot_entered(loaded)
                restored == rehydrate_flies(loaded.active_flies, chain, active_flies)
            IN  /\ pc' = "entry"
                /\ options' = chain
                /\ cycle' = [NoCycle EXCEPT !.kind = "start", !.found = ld.found,
                                            !.loaded = Some(loaded), !.exps = exps,
                                            !.picked = pick_0dte(exps)]
                /\ IF ~entered
                   THEN /\ entered_today' = FALSE
                        /\ expiry' = Some(Today)
                        /\ active_flies' = active_flies
                        /\ disk' = Some(save_state(Some(Today), FALSE, active_flies,
                                                   closed_flies, total_pnl))
                        /\ saved_flies' = active_flies
                   ELSE /\ entered_today' = (Len(restored) > 0)
                        /\ expiry' = loaded.expiry
                        /\ active_flies' = restored
                        /\ UNCHANGED <<disk, saved_flies>>
    /\ UNCHANGED <<version, cfg, clock_ok, atm_body, closed_flies, per_if_pnl,
                   total_pnl, min_net_pnl, max_net_pnl, data, ladder, observed, placed,
                   anchor, halt>>

\* the rolling engine's run() up to the loop: get_chain, pick_0_or_1_dte
\* (an empty catalog ends run() with an IndexError) and the anchor
StartNotUsed ==
    /\ version = "not_used"
    /\ pc = "start"
    /\ \E exps \in ExpiryCatalogs :
        IF IsNone(pick_0_or_1_dte(exps))
        THEN /\ pc' = "crashed"
             /\ cycle' = [NoCycle EXCEPT !.kind = "abort", !.exps = exps]
             /\ UNCHANGED <<options, atm_body, anchor>>
        ELSE \E chain \in Chains, spot \in Spots :
            /\ pc' = "entry"
            /\ cycle' = [NoCycle EXCEPT !.kind = "start", !.exps = exps,
                                        !.picked = pick_0_or_1_dte(exps)]
            /\ options' = chain
            /\ atm_body' = Some(derive_atm_body(chain, spot))
            /\ anchor' = Some(derive_atm_body(chain, spot))
    /\ UNCHANGED <<version, cfg, clock_ok, entered_today, expiry, active_flies,
                   closed_flies, per_if_pnl, total_pnl, min_net_pnl, max_net_pnl,
                   data, disk, ladder, observed, placed, halt, saved_flies>>

\* v2: "Entry: only if no active IFs for today and entry window is met"
EntryV2 ==
    /\ version = "v2"
    /\ pc = "entry"
    /\ IF evaluate_entry_window(clock_ok, entered_today) /\ active_flies = << >>
       THEN \E spot \in Spots :
            LET atm == derive_atm_body(options, spot)
                lad == construct_ladder(options, atm, cfg)
            IN  /\ atm_body' = Some(atm)
                /\ anchor' = Some(atm)
                /\ ladder' = lad
                /\ IF IsNone(lad)
                   THEN /\ pc' = "crashed"
                        /\ cycle' = [NoCycle EXCEPT !.kind = "entry"]
                        /\ UNCHANGED <<active_flies, entered_today, disk, placed,
                                       saved_flies>>
                   ELSE \E inp \in [1..Len(Val(lad)) -> OpenInputs] :
                        LET st == open_loop(Val(lad), inp, 1,
                                      [active |-> active_flies, orders |-> << >>,
                                       opened |-> 0], cfg.dry_run)
                        IN  /\ active_flies' = st.active
                            /\ entered_today' = (st.opened > 0)
                            /\ disk' = Some(save_state(expiry, st.opened > 0, st.active,
                                                       closed_flies, total_pnl))
                            /\ saved_flies' = st.active
                            /\ placed' = IF st.opened > 0 THEN Bump(placed) ELSE placed
                            /\ cycle' = [NoCycle EXCEPT !.kind = "entry",
                                                        !.orders = st.orders]
                            /\ pc' = "mark"
       ELSE /\ pc' = "mark"
            /\ cycle' = [NoCycle EXCEPT !.kind = "entry"]
            /\ UNCHANGED <<atm_body, anchor, ladder, active_flies, entered_today, disk,
                           placed, saved_flies>>
    /\ UNCHANGED <<version, cfg, clock_ok, options, expiry, closed_flies, per_if_pnl,
                   total_pnl, min_net_pnl, max_net_pnl, data, observed, halt>>

\* rolling engine: "if self.evaluate_entry_window(): ..."
EntryNotUsed ==
    /\ version = "not_used"
    /\ pc = "entry"
    /\ IF evaluate_entry_window(clock_ok, entered_today)
       THEN LET lad == construct_ladder(options, Val(atm_body), cfg)
            IN  /\ ladder' = lad
                /\ IF IsNone(lad)
                   THEN /\ pc' = "crashed"
                        /\ cycle' = [NoCycle EXCEPT !.kind = "entry"]
                        /\ UNCHANGED <<active_flies, entered_today, placed>>
                   ELSE \E inp \in [1..Len(Val(lad)) -> OpenInputs] :
                        LET st == open_loop(Val(lad), inp, 1,
                                      [active |-> active_flies, orders |-> << >>,
                                       opened |-> 0], cfg.dry_run)
                        IN  /\ active_flies' = st.active
                            /\ entered_today' = TRUE
                            /\ placed' = IF st.opened > 0 THEN Bump(placed) ELSE placed
                            /\ cycle' = [NoCycle EXCEPT !.kind = "entry",
                                                        !.orders = st.orders]
                            /\ pc' = "mark"
       ELSE /\ pc' = "mark"
            /\ cycle' = [NoCycle EXCEPT !.kind = "entry"]
            /\ UNCHANGED <<ladder, active_flies, entered_today, placed>>
    /\ UNCHANGED <<version, cfg, clock_ok, options, atm_body, expiry, closed_flies,
                   per_if_pnl, total_pnl, min_net_pnl, max_net_pnl, data, disk,
                   observed, anchor, halt, saved_flies>>

\* what mids_for_symbols returns for the legs of the open flies when the
\* legs of fly b are quoted as sc[b]
RECURSIVE MarkData(_, _)
MarkData(active, sc) ==
    IF active = << >> THEN << >>
    ELSE LET fly == Head(active)
             rest == MarkData(Tail(active), sc)
         IN  IF fly.open THEN QuoteData(fly, sc[fly.body]) @@ rest ELSE rest

\* stream_and_mark (v2 saves the state at its end, the rolling engine has no
\* state store)
StreamAndMark ==
    /\ version \in {"v2", "not_used"}
    /\ pc = "mark"
    /\ IF active_flies = << >>
       THEN UNCHANGED <<data, per_if_pnl, total_pnl, disk, saved_flies>>
       ELSE \E sc \in [Keys(active_flies) -> MarkQuotes] :
            LET d == MarkData(active_flies, sc)
                status == compute_strategy_status(active_flies,
                                                  fly_mids_of(active_flies, d))
            IN  /\ data' = d
                /\ per_if_pnl' = status.per_if_pnl
                /\ total_pnl' = status.total_pnl
                /\ disk' = IF version = "v2"
                           THEN Some(save_state(expiry, entered_today, active_flies,
                                                closed_flies, status.total_pnl))
                           ELSE disk
                /\ saved_flies' = IF version = "v2" THEN active_flies ELSE saved_flies
    /\ pc' = "exit"
    /\ cycle' = [NoCycle EXCEPT !.kind = "mark"]
    /\ UNCHANGED <<version, cfg, clock_ok, options, atm_body, entered_today, expiry,
                   active_flies, closed_flies, min_net_pnl, max_net_pnl, ladder,
                   observed, placed, anchor, halt>>

\* v2: "Exit checks" of the loop, then sleep
ExitV2 ==
    /\ version = "v2"
    /\ pc = "exit"
    /\ LET rules == evaluate_exit_rules(active_flies, per_if_pnl, total_pnl, cfg)
       IN  IF rules.portfolio_stop /\ active_flies # << >>
           THEN \E inp \in [1..Len(active_flies) -> CloseInputs] :
                LET st == close_all_v2(active_flies, inp, 1, LoopState, cfg.dry_run)
                IN  /\ active_flies' = st.active
                    /\ closed_flies' = st.closed
                    /\ disk' = Some(save_state(expiry, entered_today, st.active,
                                               st.closed, total_pnl))
                    /\ saved_flies' = st.active
                    /\ halt' = Halt(halt, TRUE, st.active)
                    /\ cycle' = [NoCycle EXCEPT !.kind = "exit",
                                                !.portfolio_stop = TRUE,
                                                !.to_close = rules.to_close,
                                                !.orders = st.orders,
                                                !.attempts = st.attempts]
           ELSE IF rules.to_close # << >>
           THEN \E inp \in [1..Len(rules.to_close) -> CloseInputs] :
                LET st == close_loop(rules.to_close, inp, 1, LoopState, options,
                                     cfg, FALSE)
                IN  /\ active_flies' = st.active
                    /\ closed_flies' = st.closed
                    /\ disk' = Some(save_state(expiry, entered_today, st.active,
                                               st.closed, total_pnl))
                    /\ saved_flies' = st.active
                    /\ halt' = Halt(halt, FALSE, st.active)
                    /\ cycle' = [NoCycle EXCEPT !.kind = "exit",
                                                !.portfolio_stop = rules.portfolio_stop,
                                                !.to_close = rules.to_close,
                                                !.orders = st.orders,
                                                !.attempts = st.attempts,
                                                !.before = st.before]
           ELSE /\ cycle' = [NoCycle EXCEPT !.kind = "exit",
                                            !.portfolio_stop = rules.portfolio_stop]
                /\ UNCHANGED <<active_flies, closed_flies, disk, saved_flies, halt>>
    /\ pc' = "entry"
    /\ UNCHANGED <<version, cfg, clock_ok, options, atm_body, entered_today, expiry,
                   per_if_pnl, total_pnl, min_net_pnl, max_net_pnl, data, ladder,
                   observed, placed, anchor>>

\* rolling engine: "Exit checks" of the loop, then sleep
ExitNotUsed ==
    /\ version = "not_used"
    /\ pc = "exit"
    /\ LET rules == evaluate_exit_rules(active_flies, per_if_pnl, total_pnl, cfg)
       IN  IF rules.portfolio_stop /\ active_flies # << >>
           THEN \E inp \in [1..Len(active_flies) -> CloseInputs] :
                LET st == close_all_not_used(active_flies, inp, 1, LoopState,
                                             cfg.dry_run)
                IN  /\ active_flies' = st.active
                    /\ closed_flies' = st.closed
                    /\ halt' = Halt(halt, TRUE, st.active)
                    /\ cycle' = [NoCycle EXCEPT !.kind = "exit",
                                                !.portfolio_stop = TRUE,
                                                !.to_close = rules.to_close,
                                                !.orders = st.orders,
                                                !.attempts = st.attempts]
                    /\ pc' = "entry"
           ELSE IF rules.to_close # << >>
           THEN \E inp \in [1..Len(rules.to_close) -> CloseRollInputs] :
                LET st == close_loop(rules.to_close, inp, 1, LoopState, options,
                                     cfg, TRUE)
                IN  /\ active_flies' = st.active
                    /\ closed_flies' = st.closed
                    /\ halt' = Halt(halt, FALSE, st.active)
                    /\ cycle' = [NoCycle EXCEPT !.kind = "exit",
                                                !.portfolio_stop = rules.portfolio_stop,
                                                !.to_close = rules.to_close,
                                                !.orders = st.orders,
                                                !.attempts = st.attempts,
                                                !.rolls = st.rolls,
                                                !.before = st.before]
                    /\ pc' = IF st.raised THEN "crashed" ELSE "entry"
           ELSE /\ cycle' = [NoCycle EXCEPT !.kind = "exit",
                                            !.portfolio_stop = rules.portfolio_stop]
                /\ pc' = "entry"
                /\ UNCHANGED <<active_flies, closed_flies, halt>>
    /\ UNCHANGED <<version, cfg, clock_ok, options, atm_body, entered_today, expiry,
                   per_if_pnl, total_pnl, min_net_pnl, max_net_pnl, data, disk,
                   ladder, observed, placed, anchor, saved_flies>>

\* the v2 process ends (killed, or crashed) and is started again on the same
\* day: a new SPXIFStrategy, state.json as the last save_state left it
Restart ==
    /\ version = "v2"
    /\ pc # "start"
    /\ pc' = "start"
    /\ options' = {}
    /\ atm_body' = None
    /\ entered_today' = FALSE
    /\ expiry' = None
    /\ active_flies' = << >>
    /\ closed_flies' = << >>
    /\ per_if_pnl' = << >>
    /\ total_pnl' = 0
    /\ min_net_pnl' = 0
    /\ max_net_pnl' = 0
    /\ data' = << >>
    /\ ladder' = None
    /\ cycle' = NoCycle
    /\ UNCHANGED <<version, cfg, clock_ok, disk, observed, placed, anchor, halt,
                   saved_flies>>

NextV2 == Tick \/ StartV2 \/ EntryV2 \/ StreamAndMark \/ ExitV2 \/ Restart
NextNotUsed == Tick \/ StartNotUsed \/ EntryNotUsed \/ StreamAndMark \/ ExitNotUsed

SpecV2 == InitEngine("v2") /\ [][NextV2]_vars
SpecRoll == InitEngine("not_used") /\ [][NextNotUsed]_vars

\* One session of the v2 engine without a restart.  The loop of run() never
\* ends by itself ("while True", each await returns, then a sleep of two
\* seconds), so the engine does not stay for ever before a step of the loop:
\* Proceeds is the step that leaves the place run() is at, written on pc
\* alone; it is possible whenever the engine is in the loop or about to
\* enter it.
NextV2Session == Tick \/ StartV2 \/ EntryV2 \/ StreamAndMark \/ ExitV2
Proceeds ==
    /\ pc \in {"start", "entry", "mark", "exit"}
    /\ pc' \in {"entry", "mark", "exit", "crashed", "done"}
    /\ pc' # pc
SpecV2Fair ==
    /\ InitEngine("v2")
    /\ [][NextV2Session]_vars
    /\ WF_vars(Tick)
    /\ WF_pc(Proceeds)

-----------------------------------------------------------------------------
(* The start of the v2 engine on any state.json an earlier run can have   *)
(* left: none, one of today, or one whose expiry is another day's (run()  *)
(* keeps state.expiry when the date rolls over to a new folder).          *)

\* bodies of the positions a snapshot lists, and their entry credits
SnapshotBodies == {6395, 6400, 6405, 6410}
SnapshotCredits == {320, 325}

\* the open positions an earlier run held: bodies B in ascending order, each
\* entered at the same credit, with the legs of the full catalog
SnapshotFlies(B, credit) ==
    [i \in 1..Cardinality(B) |->
        IronFly(SetToSeq(B)[i], Width, 1,
                Val(build_if_options(FullChain, SetToSeq(B)[i], Width)),
                credit, TRUE)]

\* the earlier runs: the day, entered_today and the open positions of their
\* last save_state (entered_today is true while positions are open)
EarlierRuns ==
    {r \in [day : {Yesterday, Today}, entered : BOOLEAN,
            bodies : SUBSET SnapshotBodies, credit : SnapshotCredits] :
        /\ r.bodies # {} => r.entered
        /\ r.bodies = {} => r.credit = 320}

InitRehydrate ==
    /\ version = "v2"
    /\ pc = "start"
    /\ cfg = EngineConfig
    /\ clock_ok = FALSE
    /\ FreshMemory
    /\ \/ disk = None /\ saved_flies = << >>
       \/ \E r \in EarlierRuns :
              /\ saved_flies = SnapshotFlies(r.bodies, r.credit)
              /\ disk = Some(save_state(Some(r.day), r.entered,
                                        SnapshotFlies(r.bodies, r.credit),
                                        << >>, 0))
    /\ observed = << >>
    /\ placed = 0
    /\ anchor = None
    /\ halt = "no"

SpecRehydrate == InitRehydrate /\ [][StartV2]_vars

-----------------------------------------------------------------------------
(* construct_ladder on its own: any anchor, step and counts *)

LadderAnchors == {6395, 6400, 6403, 6405}

\* a catalog that lists every whole strike a ladder of these bounds can ask for
LadderChain ==
    LET reach == MaxCount * MaxStep + Width
    IN  {Opt(k, t) : k \in (6395 - reach)..(6405 + reach), t \in {"C", "P"}}

InitLadder ==
    /\ version = "ladder"
    /\ pc = "start"
    /\ cfg \in {[EngineConfig EXCEPT !.n_below = b, !.n_above = a, !.step = st] :
                    b \in 0..MaxCount, a \in 0..MaxCount, st \in 1..MaxStep}
    /\ clock_ok = FALSE
    /\ options = LadderChain
    /\ atm_body \in {Some(a) : a \in LadderAnchors}
    /\ entered_today = FALSE
    /\ expiry = None
    /\ active_flies = << >>
    /\ closed_flies = << >>
    /\ per_if_pnl = << >>
    /\ total_pnl = 0
    /\ min_net_pnl = 0
    /\ max_net_pnl = 0
    /\ data = << >>
    /\ ladder = None
    /\ cycle = NoCycle
    /\ disk = None
    /\ observed = << >>
    /\ placed = 0
    /\ anchor = None
    /\ halt = "no"
    /\ saved_flies = << >>

ConstructLadder ==
    /\ version = "ladder"
    /\ pc = "start"
    /\ ladder' = construct_ladder(options, Val(atm_body), cfg)
    /\ pc' = "done"
    /\ UNCHANGED <<version, cfg, clock_ok, options, atm_body, entered_today, expiry,
                   active_flies, closed_flies, per_if_pnl, total_pnl, min_net_pnl,
                   max_net_pnl, data, disk, cycle, observed, placed, anchor, halt,
                   saved_flies>>

SpecLadder == InitLadder /\ [][ConstructLadder]_vars

-----------------------------------------------------------------------------
(* The running extrema of the aggregate P&L *)

\* aggregate P&L values of test_pnl_tracking_functionality, in cents
PnlObservations == {-500, -200, 100, -300, 250}

Min2(a, b) == IF a <= b THEN a ELSE b
Max2(a, b) == IF a >= b THEN a ELSE b

\* update_pnl_extremes that keeps the last value instead of the extremes
update_pnl_extremes_last(lo, hi, pnl) ==
    [min_net_pnl |-> IF pnl < 0 THEN pnl ELSE lo,
     max_net_pnl |-> IF pnl > 0 THEN pnl ELSE hi]

\* update_pnl_extremes(pnl): min = min(min, pnl), max = max(max, pnl)
update_pnl_extremes(lo, hi, pnl) ==
    [min_net_pnl |-> Min2(lo, pnl), max_net_pnl |-> Max2(hi, pnl)]

\* one aggregate computation followed by the extrema update
UpdatePnlExtremes ==
    /\ version = "extrema"
    /\ Len(observed) < MaxObs
    /\ \E pnl \in PnlObservations :
        LET ext == update_pnl_extremes(min_net_pnl, max_net_pnl, pnl)
        IN  /\ total_pnl' = pnl
            /\ min_net_pnl' = ext.min_net_pnl
            /\ max_net_pnl' = ext.max_net_pnl
            /\ observed' = Append(observed, pnl)
    /\ UNCHANGED <<version, pc, cfg, clock_ok, options, atm_body, entered_today,
                   expiry, active_flies, closed_flies, per_if_pnl, data, disk, ladder,
                   cycle, placed, anchor, halt, saved_flies>>

SpecExtrema == InitEngine("extrema") /\ [][UpdatePnlExtremes]_vars

-----------------------------------------------------------------------------
(* mids_for_symbols: one call, with an action per await of the coroutine.  *)
(* data is the dict out of the call and cycle holds its local variables.   *)
(* Prices are in cents; a Quote or Greeks event is what get_event returns. *)

\* the position whose four legs the call is asked to quote
QuotedFly ==
    IronFly(6400, Width, 1, Val(build_if_options(FullChain, 6400, Width)), 0, TRUE)

\* a contract the call did not ask for
OtherSymbol == Opt(6405, "C")

\* bid_price and ask_price of the Quote events: two-sided (mid 2.00), two-sided
\* with the mid 1.175 halfway between two nickels, without a bid, and empty
QuotePrices ==
    {<<Some(195), Some(205)>>, <<Some(115), Some(120)>>,
     <<None, Some(205)>>, <<None, None>>}

QuoteEvents ==
    {[event_symbol |-> s, bid_price |-> p[1], ask_price |-> p[2]] :
        s \in Range(streamer_symbols(QuotedFly)) \cup {OtherSymbol},
        p \in QuotePrices}

\* Greeks events, in hundredths; theta is not reported
GreeksEvents ==
    {[event_symbol |-> s, delta |-> Some(50), gamma |-> Some(2),
      theta |-> None, vega |-> Some(10)] :
        s \in Range(streamer_symbols(QuotedFly)) \cup {OtherSymbol}}

\* out as mids_for_symbols creates it
empty_out(syms) ==
    [s \in Range(syms) |->
        [bid |-> None, ask |-> None, mid |-> None,
         delta |-> None, gamma |-> None, theta |-> None, vega |-> None,
         has_quote |-> FALSE, has_greeks |-> FALSE]]

\* the mid of a quote that is computed although the bid is missing
quote_mid_one_sided(bid, ask) ==
    IF IsNone(ask) THEN {None}
    ELSE IF IsNone(bid) THEN {Some(Val(ask))}
    ELSE {Some(RoundHalfUpDiv(Val(bid) + Val(ask), 10) * 5)}

\* the values out[sym]['mid'] can get from a quote: it stays None unless both
\* sides are present; else float(round_to_nickel((bid + ask) / 2)).  The sum
\* and the halving are done in binary floating point, so a mid halfway
\* between two nickels (1.175) can reach round_to_nickel as 1.17499... and go
\* down, or as 1.175 and go up.
quote_mid(bid, ask) ==
    IF IsNone(bid) \/ IsNone(ask) THEN {None}
    ELSE LET sum == Val(bid) + Val(ask)
             down == (sum \div 10) * 5
         IN  IF sum % 10 < 5 THEN {Some(down)}
             ELSE IF sum % 10 > 5 THEN {Some(down + 5)}
             ELSE {Some(down), Some(down + 5)}

\* the quote branch without the has_quote latch
record_quote_unlatched(out, q, mid) ==
    IF /\ q.event_symbol \in DOMAIN out
       /\ (~IsNone(q.bid_price) \/ ~IsNone(q.ask_price))
    THEN [out EXCEPT ![q.event_symbol] =
             [@ EXCEPT !.bid = q.bid_price, !.ask = q.ask_price,
                       !.mid = mid, !.has_quote = TRUE]]
    ELSE out

\* the quote branch recording a quote only once the symbol has its greeks
record_quote_after_greeks(out, q, mid) ==
    IF /\ q.event_symbol \in DOMAIN out
       /\ ~out[q.event_symbol].has_quote
       /\ out[q.event_symbol].has_greeks
       /\ (~IsNone(q.bid_price) \/ ~IsNone(q.ask_price))
    THEN [out EXCEPT ![q.event_symbol] =
             [@ EXCEPT !.bid = q.bid_price, !.ask = q.ask_price,
                       !.mid = mid, !.has_quote = TRUE]]
    ELSE out

\* the body of the loop after get_event(Quote) returned q: out afterwards
\* (mid is the value computed for out[sym]['mid'])
record_quote(out, q, mid) ==
    IF /\ q.event_symbol \in DOMAIN out
       /\ ~out[q.event_symbol].has_quote
       /\ (~IsNone(q.bid_price) \/ ~IsNone(q.ask_price))
    THEN [out EXCEPT ![q.event_symbol] =
             [@ EXCEPT !.bid = q.bid_price, !.ask = q.ask_price,
                       !.mid = mid, !.has_quote = TRUE]]
    ELSE out

\* the body of the loop after get_event(Greeks) returned g: out afterwards
record_greeks(out, g) ==
    IF g.event_symbol \in DOMAIN out /\ ~out[g.event_symbol].has_greeks
    THEN [out EXCEPT ![g.event_symbol] =
             [@ EXCEPT !.delta = g.delta, !.gamma = g.gamma, !.theta = g.theta,
                       !.vega = g.vega, !.has_greeks = TRUE]]
    ELSE out

\* the locals of a call before the subscriptions; arrived (the symbols a
\* recordable quote event was read for) and late (a quote event with other
\* prices was read for a symbol that had its quote) are records of the run
MidsLocals(syms) ==
    [kind |-> "mids", greeks_available |-> TRUE,
     quotes_collected |-> 0, greeks_collected |-> 0,
     target_quotes |-> Len(syms), target_greeks |-> Len(syms),
     timeouts |-> 0, got_event |-> FALSE, raised |-> FALSE,
     arrived |-> {}, late |-> FALSE]

\* the while condition
loop_continues(loc, c) ==
    /\ (loc.quotes_collected < loc.target_quotes
            \/ loc.greeks_collected < loc.target_greeks)
    /\ loc.timeouts < c.max_quote_timeouts

\* the end of an iteration that never counts a timeout
end_iteration_uncounted(loc) ==
    [loc EXCEPT !.timeouts = 0, !.got_event = FALSE]

\* the end of an iteration: if not got_event: timeouts += 1 else: timeouts = 0
end_iteration(loc) ==
    [loc EXCEPT !.timeouts = IF loc.got_event THEN 0 ELSE @ + 1,
                !.got_event = FALSE]

\* number of symbols of the calls whose termination is checked
FairSyms == 2

InitMidsOf(syms) ==
    /\ version = "mids"
    /\ pc = "subscribe"
    /\ cfg = EngineConfig
    /\ clock_ok = FALSE
    /\ options = FullChain
    /\ atm_body = None
    /\ entered_today = FALSE
    /\ expiry = None
    /\ active_flies = << >>
    /\ closed_flies = << >>
    /\ per_if_pnl = << >>
    /\ total_pnl = 0
    /\ min_net_pnl = 0
    /\ max_net_pnl = 0
    /\ data = empty_out(syms)
    /\ ladder = None
    /\ cycle = MidsLocals(syms)
    /\ disk = None
    /\ observed = << >>
    /\ placed = 0
    /\ anchor = None
    /\ halt = "no"
    /\ saved_flies = << >>

\* a call for the four legs of a position (if_mid_credit, close_if)
InitMids == InitMidsOf(streamer_symbols(QuotedFly))

\* a call for the first FairSyms legs of the position
InitMidsFair == InitMidsOf(SubSeq(streamer_symbols(QuotedFly), 1, FairSyms))

\* subscribe(Quote), then subscribe(Greeks), whose failure is caught
SubscribeMids ==
    /\ version = "mids"
    /\ pc = "subscribe"
    /\ \E greeks_ok \in BOOLEAN :
        LET loc == [cycle EXCEPT !.greeks_available = greeks_ok,
                                 !.target_greeks = IF greeks_ok THEN @ ELSE 0]
        IN  /\ cycle' = loc
            /\ pc' = IF loop_continues(loc, cfg) THEN "quote" ELSE "done"
    /\ UNCHANGED <<version, cfg, clock_ok, options, atm_body, entered_today, expiry,
                   active_flies, closed_flies, per_if_pnl, total_pnl, min_net_pnl,
                   max_net_pnl, data, disk, ladder, observed, placed, anchor, halt,
                   saved_flies>>

\* wait_for(get_event(Quote)): a timeout, or an event; without greeks the
\* iteration ends here
ReadQuote ==
    /\ version = "mids"
    /\ pc = "quote"
    /\ \E read \in {None} \cup {Some(q) : q \in QuoteEvents} :
        \E mid \in IF IsNone(read) THEN {None}
                   ELSE quote_mid(Val(read).bid_price, Val(read).ask_price) :
            LET out == IF IsNone(read) THEN data
                       ELSE record_quote(data, Val(read), mid)
                got == out # data
                recordable ==
                    /\ ~IsNone(read)
                    /\ Val(read).event_symbol \in DOMAIN data
                    /\ (~IsNone(Val(read).bid_price) \/ ~IsNone(Val(read).ask_price))
                read_loc ==
                    [cycle EXCEPT
                        !.quotes_collected = IF got THEN @ + 1 ELSE @,
                        !.got_event = got,
                        !.arrived = IF recordable
                                    THEN @ \cup {Val(read).event_symbol} ELSE @,
                        !.late = @ \/ (/\ recordable
                                       /\ data[Val(read).event_symbol].has_quote
                                       /\ <<data[Val(read).event_symbol].bid,
                                            data[Val(read).event_symbol].ask>>
                                              # <<Val(read).bid_price,
                                                  Val(read).ask_price>>)]
                loc == IF cycle.greeks_available THEN read_loc
                       ELSE end_iteration(read_loc)
            IN  /\ data' = out
                /\ cycle' = loc
                /\ pc' = IF cycle.greeks_available THEN "greeks"
                         ELSE IF loop_continues(loc, cfg) THEN "quote" ELSE "done"
    /\ UNCHANGED <<version, cfg, clock_ok, options, atm_body, entered_today, expiry,
                   active_flies, closed_flies, per_if_pnl, total_pnl, min_net_pnl,
                   max_net_pnl, disk, ladder, observed, placed, anchor, halt,
                   saved_flies>>

\* wait_for(get_event(Greeks)): a timeout, or an event; then the end of the
\* iteration and the while test
ReadGreeks ==
    /\ version = "mids"
    /\ pc = "greeks"
    /\ \E read \in {None} \cup {Some(g) : g \in GreeksEvents} :
        LET out == IF IsNone(read) THEN data ELSE record_greeks(data, Val(read))
            got == out # data
            loc == end_iteration(
                       [cycle EXCEPT
                           !.greeks_collected = IF got THEN @ + 1 ELSE @,
                           !.got_event = @ \/ got])
        IN  /\ data' = out
            /\ cycle' = loc
            /\ pc' = IF loop_continues(loc, cfg) THEN "quote" ELSE "done"
    /\ UNCHANGED <<version, cfg, clock_ok, options, atm_body, entered_today, expiry,
                   active_flies, closed_flies, per_if_pnl, total_pnl, min_net_pnl,
                   max_net_pnl, disk, ladder, observed, placed, anchor, halt,
                   saved_flies>>

\* the streamer raises (connection lost, subscribe(Quote) fails): the outer
\* except logs it and the call returns out as it is
StreamingError ==
    /\ version = "mids"
    /\ pc \in {"subscribe", "quote", "greeks"}
    /\ cycle' = [cycle EXCEPT !.raised = TRUE]
    /\ pc' = "done"
    /\ UNCHANGED <<version, cfg, clock_ok, options, atm_body, entered_today, expiry,
                   active_flies, closed_flies, per_if_pnl, total_pnl, min_net_pnl,
                   max_net_pnl, data, disk, ladder, observed, placed, anchor, halt,
                   saved_flies>>

NextMids == SubscribeMids \/ ReadQuote \/ ReadGreeks \/ StreamingError

SpecMids == InitMids /\ [][NextMids]_vars

\* every await of the call returns: wait_for bounds the two reads, and the
\* subscriptions return or raise
SpecMidsFair == InitMidsFair /\ [][NextMids]_vars /\ WF_vars(NextMids)

-----------------------------------------------------------------------------
(* The anchor of the ladder on its own: run() asks for the underlying's    *)
(* price rounded to 5 points and falls back to the catalog's median strike *)

\* number of 0.25-point steps of the underlying's price above 6395.00
SpotSteps == 60

\* the price get_underlying_spot_mark_rounded5 reads, in cents, or None
AnchorSpots == {None} \cup {Some(639500 + 25 * k) : k \in 0..SpotSteps}

\* a catalog that also lists two one-point strikes below the money, which
\* makes 6397 the strike at the middle of the sorted strikes
DenseChain == FullChain \cup {Opt(k, t) : k \in {6396, 6397}, t \in {"C", "P"}}

InitAnchor ==
    /\ version = "anchor"
    /\ pc = "start"
    /\ cfg = EngineConfig
    /\ clock_ok = FALSE
    /\ options \in Chains \cup {DenseChain}
    /\ atm_body = None
    /\ entered_today = FALSE
    /\ expiry = None
    /\ active_flies = << >>
    /\ closed_flies = << >>
    /\ per_if_pnl = << >>
    /\ total_pnl = 0
    /\ min_net_pnl = 0
    /\ max_net_pnl = 0
    /\ data = << >>
    /\ ladder = None
    /\ cycle = NoCycle
    /\ disk = None
    /\ observed = << >>
    /\ placed = 0
    /\ anchor = None
    /\ halt = "no"
    /\ saved_flies = << >>

\* "Determine ATM body for first entry": observed records the price read
DeriveAnchor ==
    /\ version = "anchor"
    /\ pc = "start"
    /\ \E spot \in AnchorSpots :
        /\ atm_body' = Some(derive_atm_body(options, spot))
        /\ observed' = <<spot>>
    /\ pc' = "done"
    /\ UNCHANGED <<version, cfg, clock_ok, options, entered_today, expiry,
                   active_flies, closed_flies, per_if_pnl, total_pnl, min_net_pnl,
                   max_net_pnl, data, disk, ladder, cycle, placed, anchor, halt,
                   saved_flies>>

SpecAnchor == InitAnchor /\ [][DeriveAnchor]_vars

-----------------------------------------------------------------------------
(* The download route of flask_app.py.  A string that is parsed is a       *)
(* sequence of one-character strings; a path is the sequence of the        *)
(* components os.path.join puts together.  In this part data is the        *)
(* request, disk the set of paths that exist and cycle the response.       *)

DATA_BASE_DIR == "Data"
STRATEGY_FOLDER == "SPX_9IF_0DTE"
PNL_IF_CSV_NAME == "pnl.csv"

Digits == <<"0", "1", "2", "3", "4", "5", "6", "7", "8", "9">>
IsDigit(c) == \E i \in 1..Len(Digits) : Digits[i] = c
DigitVal(c) == (CHOOSE i \in 1..Len(Digits) : Digits[i] = c) - 1

\* calendar.monthrange: the days of month m of year y
DaysInMonth(y, m) ==
    IF m = 2
    THEN (IF y % 4 = 0 /\ (y % 100 # 0 \/ y % 400 = 0) THEN 29 ELSE 28)
    ELSE IF m \in {4, 6, 9, 11} THEN 30 ELSE 31

\* the directive %m at position i of s: 1[0-2]|0[1-9]|[1-9], as the value
\* and the number of characters matched, or None
match_month(s, i) ==
    IF /\ i + 1 <= Len(s) /\ IsDigit(s[i]) /\ IsDigit(s[i + 1])
       /\ \/ s[i] = "1" /\ DigitVal(s[i + 1]) <= 2
          \/ s[i] = "0" /\ DigitVal(s[i + 1]) >= 1
    THEN Some([val |-> 10 * DigitVal(s[i]) + DigitVal(s[i + 1]), len |-> 2])
    ELSE IF i <= Len(s) /\ IsDigit(s[i]) /\ DigitVal(s[i]) >= 1
    THEN Some([val |-> DigitVal(s[i]), len |-> 1])
    ELSE None

\* the directive %d at position i of s: 3[0-1]|[1-2]\d|0[1-9]|[1-9]| [1-9]
match_day(s, i) ==
    IF /\ i + 1 <= Len(s) /\ IsDigit(s[i]) /\ IsDigit(s[i + 1])
       /\ \/ s[i] = "3" /\ DigitVal(s[i + 1]) <= 1
          \/ s[i] \in {"1", "2"}
          \/ s[i] = "0" /\ DigitVal(s[i + 1]) >= 1
    THEN Some([val |-> 10 * DigitVal(s[i]) + DigitVal(s[i + 1]), len |-> 2])
    ELSE IF i <= Len(s) /\ IsDigit(s[i]) /\ DigitVal(s[i]) >= 1
    THEN Some([val |-> DigitVal(s[i]), len |-> 1])
    ELSE IF /\ i + 1 <= Len(s) /\ s[i] = " " /\ IsDigit(s[i + 1])
            /\ DigitVal(s[i + 1]) >= 1
    THEN Some([val |-> DigitVal(s[i + 1]), len |-> 2])
    ELSE None

\* datetime.strptime(s, "%Y-%m-%d"): the date, or None for a ValueError (no
\* match, unconverted data, or a date the calendar does not have)
strptime(s) ==
    IF ~(/\ Len(s) >= 5
         /\ \A i \in 1..4 : IsDigit(s[i])
         /\ s[5] = "-")
    THEN None
    ELSE LET year == 1000 * DigitVal(s[1]) + 100 * DigitVal(s[2])
                         + 10 * DigitVal(s[3]) + DigitVal(s[4])
             month == match_month(s, 6)
         IN  IF IsNone(month) THEN None
             ELSE LET j == 6 + Val(month).len
                  IN  IF ~(j <= Len(s) /\ s[j] = "-") THEN None
                      ELSE LET day == match_day(s, j + 1)
                           IN  IF IsNone(day) THEN None
                               ELSE IF j + Val(day).len # Len(s) THEN None
                               ELSE IF year < 1 THEN None
                               ELSE IF Val(day).val > DaysInMonth(year, Val(month).val)
                               THEN None
                               ELSE Some([year |-> year, month |-> Val(month).val,
                                          day |-> Val(day).val])

\* os.path.join(DATA_BASE_DIR, date, STRATEGY_FOLDER, filename)
download_path(date, filename) == <<DATA_BASE_DIR, date, STRATEGY_FOLDER, filename>>

\* abs_file_path.startswith(abs_data_dir): the date component neither
\* restarts the path at the root nor leaves the data directory
within_data_dir(path) ==
    /\ path[1] = DATA_BASE_DIR
    /\ "/" \notin Range(path[2])
    /\ path[2] # <<".", ".">>

\* validate_download_request without the look at the file system
validate_download_request_unchecked(date, file_type, files) ==
    IF IsNone(strptime(date))
    THEN [is_valid |-> FALSE, file_path |-> << >>,
          error_message |-> "Invalid date format. Expected YYYY-MM-DD."]
    ELSE IF file_type \notin {"pnl", "quotes"}
    THEN [is_valid |-> FALSE, file_path |-> << >>,
          error_message |-> "Invalid file type. Allowed types: pnl, quotes"]
    ELSE [is_valid |-> TRUE,
          file_path |-> download_path(date, IF file_type = "pnl" THEN PNL_IF_CSV_NAME
                                                               ELSE "quotes.csv"),
          error_message |-> ""]

\* validate_download_request: (is_valid, file_path, error_message), with the
\* empty path and the empty message as << >> and ""; the message of a missing
\* file, which names the file and the date, is one fixed non-empty string
validate_download_request(date, file_type, files) ==
    IF IsNone(strptime(date))
    THEN [is_valid |-> FALSE, file_path |-> << >>,
          error_message |-> "Invalid date format. Expected YYYY-MM-DD."]
    ELSE IF file_type \notin {"pnl", "quotes"}
    THEN [is_valid |-> FALSE, file_path |-> << >>,
          error_message |-> "Invalid file type. Allowed types: pnl, quotes"]
    ELSE LET filename == IF file_type = "pnl" THEN PNL_IF_CSV_NAME ELSE "quotes.csv"
             file_path == download_path(date, filename)
         IN  IF ~within_data_dir(file_path)
             THEN [is_valid |-> FALSE, file_path |-> << >>,
                   error_message |-> "Invalid file path."]
             ELSE IF file_path \notin files
             THEN [is_valid |-> FALSE, file_path |-> << >>,
                   error_message |-> "File not found for date."]
             ELSE [is_valid |-> TRUE, file_path |-> file_path, error_message |-> ""]

\* the dates of the requests: two session dates, a date without data, dates
\* strptime reads although they are not zero-padded, dates the calendar does
\* not have, and strings that are no dates
RequestDates ==
    {<<"2", "0", "2", "5", "-", "0", "8", "-", "1", "5">>,
     <<"2", "0", "2", "4", "-", "0", "2", "-", "2", "9">>,
     <<"2", "0", "2", "5", "-", "1", "2", "-", "3", "1">>,
     <<"2", "0", "2", "5", "-", "8", "-", "1", "5">>,
     <<"2", "0", "2", "5", "-", "0", "8", "-", " ", "5">>,
     <<"2", "0", "2", "5", "-", "0", "2", "-", "2", "9">>,
     <<"2", "0", "2", "5", "-", "1", "3", "-", "4", "5">>,
     <<"0", "0", "0", "0", "-", "0", "1", "-", "0", "1">>,
     <<"2", "0", "2", "5", "-", "0", "8", "-", "1", "5", "x">>,
     <<"i", "n", "v", "a", "l", "i", "d", "-", "d", "a", "t", "e">>,
     <<".", ".", "/", "2", "0", "2", "5", "-", "0", "8", "-", "1", "5">>,
     << >>}

RequestTypes == {"pnl", "quotes", "invalid", "malicious"}

\* the days the engine ran: ensure_strategy_folder names a day's folder
\* strftime("%Y-%m-%d")
SessionDays ==
    {<<"2", "0", "2", "5", "-", "0", "8", "-", "1", "5">>,
     <<"2", "0", "2", "4", "-", "0", "2", "-", "2", "9">>}

\* the files the engine can have written under the data directory
SessionFiles ==
    {download_path(d, f) : d \in SessionDays, f \in {PNL_IF_CSV_NAME, "quotes.csv"}}

InitDownload ==
    /\ version = "download"
    /\ pc = "start"
    /\ cfg = EngineConfig
    /\ clock_ok = FALSE
    /\ options = {}
    /\ atm_body = None
    /\ entered_today = FALSE
    /\ expiry = None
    /\ active_flies = << >>
    /\ closed_flies = << >>
    /\ per_if_pnl = << >>
    /\ total_pnl = 0
    /\ min_net_pnl = 0
    /\ max_net_pnl = 0
    /\ data \in [date : RequestDates, file_type : RequestTypes]
    /\ ladder = None
    /\ cycle = NoCycle
    /\ disk \in SUBSET SessionFiles
    /\ observed = << >>
    /\ placed = 0
    /\ anchor = None
    /\ halt = "no"
    /\ saved_flies = << >>

\* the route /download/<date>/<file_type>: 404 with the error message when
\* the request is not valid, else send_file, which answers 200 or, when it
\* raises, 500
download_file ==
    /\ version = "download"
    /\ pc = "start"
    /\ LET v == validate_download_request(data.date, data.file_type, disk)
       IN  \E sent \in BOOLEAN :
               cycle' = [kind |-> "download", is_valid |-> v.is_valid,
                         file_path |-> v.file_path,
                         error_message |-> v.error_message,
                         status |-> IF ~v.is_valid THEN 404
                                    ELSE IF sent THEN 200 ELSE 500]
    /\ pc' = "done"
    /\ UNCHANGED <<version, cfg, clock_ok, options, atm_body, entered_today, expiry,
                   active_flies, closed_flies, per_if_pnl, total_pnl, min_net_pnl,
                   max_net_pnl, data, disk, ladder, observed, placed, anchor, halt,
                   saved_flies>>

SpecDownload == InitDownload /\ [][download_file]_vars


-----------------------------------------------------------------------------
(* SymbolOverwriteQueue of shared_queues.py on one event loop.  asyncio     *)
(* switches tasks only where an await suspends: the unbounded               *)
(* asyncio.Queue never suspends a put, and no task suspends while it holds  *)
(* _lock, so the lock is always free when a task asks for it and the body   *)
(* of put, and of get once the queue has handed out a row, run as one step. *)
(* A get on an empty queue suspends until a row is there.  In this part     *)
(* observed is _queue, data is _symbol_map (a function on the symbols it    *)
(* holds), placed counts the put calls and cycle records the last call, the *)
(* getters suspended in _queue.get() and the last row put per symbol.       *)

MaxPuts == 4
Getters == {"g1", "g2"}
QueueSymbols == {"SPX", "XSP"}

\* bid and ask of a quote: two-sided, without any price, without a bid
QueueQuotes == {<<100, 101>>, <<0, 0>>, <<0, 101>>}

\* the row of the seq-th put call
Row(symbol, seq, quote) ==
    [event_symbol |-> symbol, seq |-> seq, bid_price |-> quote[1],
     ask_price |-> quote[2]]

NoRow == [event_symbol |-> "", seq |-> 0, bid_price |-> 0, ask_price |-> 0]

\* del d[k]
DelKey(d, k) == [s \in (DOMAIN d) \ {k} |-> d[s]]

\* d[k] = v
SetKey(d, k, v) == [s \in (DOMAIN d) \cup {k} |-> IF s = k THEN v ELSE d[s]]

EmptyMap == [s \in {} |-> NoRow]

QueueCall == [kind |-> "none", row |-> NoRow, had |-> FALSE, qlen |-> 0,
              dequeued |-> NoRow, returned |-> NoRow, raised |-> FALSE,
              resumed |-> FALSE, waiting |-> {}, latest |-> EmptyMap]

InitQueue ==
    /\ version = "queue"
    /\ pc = "run"
    /\ cfg = EngineConfig
    /\ clock_ok = FALSE
    /\ options = {}
    /\ atm_body = None
    /\ entered_today = FALSE
    /\ expiry = None
    /\ active_flies = << >>
    /\ closed_flies = << >>
    /\ per_if_pnl = << >>
    /\ total_pnl = 0
    /\ min_net_pnl = 0
    /\ max_net_pnl = 0
    /\ data = EmptyMap
    /\ ladder = None
    /\ cycle = QueueCall
    /\ disk = None
    /\ observed = << >>
    /\ placed = 0
    /\ anchor = None
    /\ halt = "no"
    /\ saved_flies = << >>

\* put that enqueues the row whether or not its symbol is pending
put_always_enqueue(q, map, row) ==
    [queue |-> Append(q, row), map |-> SetKey(map, row.event_symbol, row)]

\* the body of put under the lock, on the queue q and the symbol map
put_locked(q, map, row) ==
    IF row.event_symbol \in DOMAIN map
    THEN [queue |-> q, map |-> SetKey(map, row.event_symbol, row)]
    ELSE [queue |-> Append(q, row), map |-> SetKey(map, row.event_symbol, row)]

\* the body of get(symbol=None) after _queue.get() returned the head of q
get_locked(q, map) ==
    LET row == Head(q)
        event_symbol == row.event_symbol
    IN  [queue |-> Tail(q),
         row |-> row,
         current_row |-> IF event_symbol \in DOMAIN map THEN map[event_symbol]
                         ELSE row,
         map |-> IF event_symbol \in DOMAIN map THEN DelKey(map, event_symbol)
                 ELSE map]

QueueUnchanged ==
    UNCHANGED <<version, pc, cfg, clock_ok, options, atm_body, entered_today,
                expiry, active_flies, closed_flies, per_if_pnl, total_pnl,
                min_net_pnl, max_net_pnl, disk, ladder, anchor, halt, saved_flies>>

\* await put(row)
put ==
    /\ version = "queue"
    /\ placed < MaxPuts
    /\ \E symbol \in QueueSymbols, quote \in QueueQuotes :
           LET row == Row(symbol, placed + 1, quote)
               r == put_locked(observed, data, row)
           IN  /\ observed' = r.queue
               /\ data' = r.map
               /\ cycle' = [QueueCall EXCEPT
                              !.kind = "put",
                              !.row = row,
                              !.had = symbol \in DOMAIN data,
                              !.qlen = Len(observed),
                              !.waiting = cycle.waiting,
                              !.latest = SetKey(cycle.latest, symbol, row)]
    /\ placed' = placed + 1
    /\ QueueUnchanged

\* what a getter does with the queue's head: the rest of get(symbol=None)
Dequeue(waiting, resumed) ==
    LET r == get_locked(observed, data)
    IN  /\ observed' = r.queue
        /\ data' = r.map
        /\ cycle' = [QueueCall EXCEPT
                       !.kind = "get",
                       !.qlen = Len(observed),
                       !.dequeued = r.row,
                       !.returned = r.current_row,
                       !.resumed = resumed,
                       !.waiting = waiting,
                       !.latest = cycle.latest]

\* await get(): the task g takes the next row, or suspends in _queue.get()
\* when there is none
get ==
    /\ version = "queue"
    /\ \E g \in Getters \ cycle.waiting :
           IF observed = << >>
           THEN /\ cycle' = [QueueCall EXCEPT !.kind = "wait",
                                              !.waiting = cycle.waiting \cup {g},
                                              !.latest = cycle.latest]
                /\ UNCHANGED <<observed, data>>
           ELSE Dequeue(cycle.waiting, FALSE)
    /\ UNCHANGED placed
    /\ QueueUnchanged

\* a task suspended in _queue.get() runs again when the queue has a row
get_resumed ==
    /\ version = "queue"
    /\ observed # << >>
    /\ \E g \in cycle.waiting : Dequeue(cycle.waiting \ {g}, TRUE)
    /\ UNCHANGED placed
    /\ QueueUnchanged

\* await get(symbol): the latest row of the symbol, or KeyError
get_symbol ==
    /\ version = "queue"
    /\ \E symbol \in QueueSymbols :
           /\ cycle' = [QueueCall EXCEPT
                          !.kind = "get_symbol",
                          !.row = [NoRow EXCEPT !.event_symbol = symbol],
                          !.returned = IF symbol \in DOMAIN data THEN data[symbol]
                                       ELSE NoRow,
                          !.raised = symbol \notin DOMAIN data,
                          !.waiting = cycle.waiting,
                          !.latest = cycle.latest]
    /\ UNCHANGED <<observed, data, placed>>
    /\ QueueUnchanged

NextQueue == put \/ get \/ get_resumed \/ get_symbol
SpecQueue == InitQueue /\ [][NextQueue]_vars

-----------------------------------------------------------------------------
(* The reconnect loop of stream_and_write in collect_data.py.  In this part *)
(* cycle holds the locals of the call (with the delays slept and the        *)
(* failures counted since the last successful connection) and pc is the     *)
(* place of the call: about to connect, streaming, or ended by the raise.   *)

\* the largest max_retries of a call (the parameter's default) and the
\* successful connection periods that are counted
MaxRetries == 5
MaxPeriods == 2

\* the values of the parameter retry_delay: its default and a longer one
RetryDelays == {5, 40}

\* min(retry_delay * 2, 60)
backoff(retry_delay) == IF retry_delay * 2 < 60 THEN retry_delay * 2 ELSE 60

StreamLocals(max_retries, retry_delay) ==
    [kind |-> "call", max_retries |-> max_retries, retry_count |-> 0,
     retry_delay |-> retry_delay, raised |-> FALSE, slept |-> << >>,
     failed |-> 0, periods |-> 0]

InitStream ==
    /\ version = "stream"
    /\ pc = "connect"
    /\ cfg = EngineConfig
    /\ clock_ok = FALSE
    /\ options = {}
    /\ atm_body = None
    /\ entered_today = FALSE
    /\ expiry = None
    /\ active_flies = << >>
    /\ closed_flies = << >>
    /\ per_if_pnl = << >>
    /\ total_pnl = 0
    /\ min_net_pnl = 0
    /\ max_net_pnl = 0
    /\ data = << >>
    /\ ladder = None
    /\ \E max_retries \in 1..MaxRetries, retry_delay \in RetryDelays :
           cycle = StreamLocals(max_retries, retry_delay)
    /\ disk = None
    /\ observed = << >>
    /\ placed = 0
    /\ anchor = None
    /\ halt = "no"
    /\ saved_flies = << >>

\* the statements after the try block, at the end of the loop body
after_try(loc) == [loc EXCEPT !.retry_delay = 5]

\* a successful connection that keeps the retry count
connected_keeps_count(loc) ==
    [loc EXCEPT !.kind = "connected", !.slept = << >>, !.failed = 0]

\* "Reset retry count on successful connection"
connected(loc) ==
    [loc EXCEPT !.kind = "connected", !.retry_count = 0,
                !.slept = << >>, !.failed = 0]

\* the handler of the outer try: the connection attempt failed
connection_failed(loc) ==
    LET retry_count == loc.retry_count + 1
    IN  IF retry_count >= loc.max_retries
        THEN [loc EXCEPT !.kind = "failed", !.retry_count = retry_count,
                         !.failed = @ + 1, !.raised = TRUE]
        ELSE after_try([loc EXCEPT !.kind = "failed",
                                   !.retry_count = retry_count,
                                   !.failed = @ + 1,
                                   !.slept = Append(@, loc.retry_delay),
                                   !.retry_delay = backoff(@)])

\* the inner loop ended by a break: no data for connection_timeout seconds,
\* or an exception while streaming
connection_lost(loc, cause) ==
    after_try([loc EXCEPT !.kind = cause,
                          !.periods = IF @ < MaxPeriods THEN @ + 1 ELSE @])

StreamUnchanged ==
    UNCHANGED <<version, cfg, clock_ok, options, atm_body, entered_today, expiry,
                active_flies, closed_flies, per_if_pnl, total_pnl, min_net_pnl,
                max_net_pnl, data, disk, ladder, observed, placed, anchor, halt,
                saved_flies>>

\* one pass of "while retry_count < max_retries" up to the inner loop:
\* DXLinkStreamer is entered and the quotes are subscribed, or that raises
Connect ==
    /\ version = "stream"
    /\ pc = "connect"
    /\ cycle.retry_count < cycle.max_retries
    /\ \E ok \in BOOLEAN :
           IF ok
           THEN cycle' = connected(cycle) /\ pc' = "streaming"
           ELSE /\ cycle' = connection_failed(cycle)
                /\ pc' = IF connection_failed(cycle).raised THEN "raised"
                         ELSE "connect"
    /\ StreamUnchanged

\* the inner loop receives an event and goes on
StreamEvent ==
    /\ version = "stream"
    /\ pc = "streaming"
    /\ cycle.kind # "event"
    /\ cycle' = [cycle EXCEPT !.kind = "event"]
    /\ UNCHANGED pc
    /\ StreamUnchanged

\* the inner loop breaks and the outer loop starts its next pass
StreamEnds ==
    /\ version = "stream"
    /\ pc = "streaming"
    /\ \E cause \in {"silent", "error"} : cycle' = connection_lost(cycle, cause)
    /\ pc' = "connect"
    /\ StreamUnchanged

NextStream == Connect \/ StreamEvent \/ StreamEnds
SpecStream == InitStream /\ [][NextStream]_vars

\* either engine
Next ==
    \/ Tick
    \/ StartV2 \/ EntryV2 \/ ExitV2 \/ Restart
    \/ StartNotUsed \/ EntryNotUsed \/ ExitNotUsed
    \/ StreamAndMark
Spec == (InitEngine("v2") \/ InitEngine("not_used")) /\ [][Next]_vars

-----------------------------------------------------------------------------
(* Properties *)

MinSet(S) == CHOOSE x \in S : \A y \in S : x <= y
MaxSet(S) == CHOOSE x \in S : \A y \in S : x >= y

\* the part of the open positions that state.json records
positions(flies) ==
    LET open_flies == SelectSeq(flies, LAMBDA f : f.open)
    IN  [i \in 1..Len(open_flies) |->
            [body |-> open_flies[i].body, width |-> open_flies[i].width,
             qty |-> open_flies[i].qty, entry_credit |-> open_flies[i].entry_credit]]

\* C1: in a cycle whose exit step finds -total_pnl >= portfolio_stop, no
\* replacement position is opened: the step rolls nothing and sends no
\* opening order, whatever the per-position P&L values are.
C1_StopPrecedence ==
    (cycle.kind = "exit" /\ -total_pnl >= cfg.portfolio_stop)
        => /\ cycle.rolls = << >>
           /\ \A i \in 1..Len(cycle.orders) : cycle.orders[i].kind # "open"

\* C1 happens: the rolling engine's exit step closed positions under the
\* portfolio stop while a position was also beyond its own stop
C1_Witness ==
    /\ version = "not_used"
    /\ cycle.kind = "exit"
    /\ -total_pnl >= cfg.portfolio_stop
    /\ \E i \in 1..Len(per_if_pnl) : -per_if_pnl[i].pnl >= cfg.per_if_stop
    /\ \E i \in 1..Len(cycle.orders) : cycle.orders[i].kind = "close"

\* C2: every roll of a cycle whose close and replacement open both succeeded
\* leaves as many open positions as there were before the close, and opens
\* highest + step when the closed body was the lowest open body, lowest - step
\* when it was the highest.
C2_RollPreservesLadderSize ==
    \A i \in 1..Len(cycle.rolls) :
        LET r == cycle.rolls[i]
        IN  r.opened =>
                /\ r.size_after = Cardinality(r.prior)
                /\ r.hit_body = MinSet(r.prior) =>
                       r.new_body = MaxSet(r.prior) + cfg.step
                /\ r.hit_body = MaxSet(r.prior) =>
                       r.new_body = MinSet(r.prior) - cfg.step

\* C3: once the portfolio stop has fired and every position is closed, no
\* position is open again in the session.
C3_HaltedForSession == halt = "halted" => active_flies = << >>

\* C4: the initial ladder is placed at most once in a session, restarts
\* included.
C4_LadderPlacedOnce == placed <= 1

\* C5: after a start that rehydrates from state.json written for the same
\* expiration, with a catalog listing every strike the saved positions need,
\* the active positions have the bodies, widths, quantities and entry credits
\* of the open positions save_state read.
C5_RestartEquivalence ==
    (/\ cycle.kind = "start"
     /\ ~IsNone(disk)
     /\ Val(disk).expiry = Some(Today)
     /\ \A i \in 1..Len(saved_flies) :
            ~IsNone(build_if_options(options, saved_flies[i].body,
                                     saved_flies[i].width)))
        => positions(active_flies) = positions(saved_flies)

\* C5 happens: a start restored at least two positions with a non-zero
\* entry credit
C5_Witness ==
    /\ version = "v2"
    /\ cycle.kind = "start"
    /\ placed >= 1
    /\ Len(active_flies) >= 2
    /\ Len(active_flies) = Len(saved_flies)
    /\ \A i \in 1..Len(active_flies) : active_flies[i].entry_credit > 0

\* C6: a body that is in closed_flies is not open: no entry and no roll puts a
\* closed body back into active_flies.
C6_ClosedNeverReopened == Keys(active_flies) \cap DOMAIN closed_flies = {}

\* C7: the bodies of active_flies are pairwise distinct, and each is the
\* anchor of the ladder plus a whole number of steps.
C7_DistinctOnGrid ==
    /\ \A i, j \in 1..Len(active_flies) :
           i # j => active_flies[i].body # active_flies[j].body
    /\ active_flies # << >> =>
           /\ ~IsNone(anchor)
           /\ \A i \in 1..Len(active_flies) :
                  (active_flies[i].body - Val(anchor)) % cfg.step = 0

\* C7 happens: a roll opened a replacement next to positions that stayed open
C7_Witness ==
    /\ cycle.kind = "exit"
    /\ \E i \in 1..Len(cycle.rolls) :
           /\ cycle.rolls[i].opened
           /\ HasKey(active_flies, cycle.rolls[i].new_body)
    /\ Len(active_flies) >= 2

\* C8: construct_ladder returns the bodies A - b*S, ..., A, ..., A + a*S in
\* ascending order: b + a + 1 of them, the i-th being A - b*S + (i-1)*S.
C8_LadderSymmetry ==
    (version = "ladder" /\ pc = "done") =>
        /\ ~IsNone(ladder)
        /\ KeyList(Val(ladder)) =
               [i \in 1..(cfg.n_below + cfg.n_above + 1) |->
                    Val(atm_body) - cfg.n_below * cfg.step + (i - 1) * cfg.step]

\* C8 happens: a ladder with positions on both sides of the anchor and a step
\* larger than one was built
C8_Witness ==
    /\ version = "ladder"
    /\ pc = "done"
    /\ cfg.n_below >= 1
    /\ cfg.n_above >= 2
    /\ cfg.step >= 2
    /\ Len(Val(ladder)) = cfg.n_below + cfg.n_above + 1

\* C9 as stated: after each observation min_net_pnl and max_net_pnl are the
\* least and the greatest of the values observed so far.
C9_TrueExtrema ==
    observed # << >> =>
        /\ min_net_pnl = MinSet(Range(observed))
        /\ max_net_pnl = MaxSet(Range(observed))

\* C9 amended: an observation never raises min_net_pnl nor lowers
\* max_net_pnl, and after it they are the least and the greatest of the
\* session's starting value 0 and the values observed so far.
C9_ExtremaMonotone ==
    [][/\ min_net_pnl' <= min_net_pnl
       /\ max_net_pnl' >= max_net_pnl
       /\ min_net_pnl' = MinSet(Range(observed') \cup {0})
       /\ max_net_pnl' = MaxSet(Range(observed') \cup {0})]_vars

\* C9 happens: observations of both signs, the last one inside the extrema
C9_Witness ==
    /\ version = "extrema"
    /\ Len(observed) >= 3
    /\ min_net_pnl < observed[Len(observed)]
    /\ observed[Len(observed)] < 0
    /\ max_net_pnl > 0

\* the credit to close a fly from the mids of the last mark
CloseCredit(fly) ==
    (Val(data[fly.call_short_opt]) + Val(data[fly.put_short_opt]))
        - (Val(data[fly.call_long_opt]) + Val(data[fly.put_long_opt]))

Quoted(fly) ==
    \A s \in Range(streamer_symbols(fly)) : s \in DOMAIN data /\ ~IsNone(data[s])

\* C10: after a mark over open positions, per_if_pnl holds for every open
\* position whose legs are quoted exactly entry_credit minus the credit to
\* close, holds nothing else, and total_pnl is the sum of its values.
C10_PnlConsistency ==
    (cycle.kind = "mark" /\ active_flies # << >>) =>
        /\ \A i \in 1..Len(active_flies) :
               LET fly == active_flies[i]
               IN  (fly.open /\ Quoted(fly)) =>
                       /\ HasKey(per_if_pnl, fly.body)
                       /\ Get(per_if_pnl, fly.body).pnl
                              = fly.entry_credit - CloseCredit(fly)
        /\ \A i \in 1..Len(per_if_pnl) :
               /\ HasKey(active_flies, per_if_pnl[i].body)
               /\ Quoted(Get(active_flies, per_if_pnl[i].body))
        /\ total_pnl = SumSeq([i \in 1..Len(per_if_pnl) |-> per_if_pnl[i].pnl])

\* C10 happens: a mark priced two positions at different P&L values
C10_Witness ==
    /\ cycle.kind = "mark"
    /\ Len(per_if_pnl) >= 2
    /\ per_if_pnl[1].pnl # per_if_pnl[2].pnl
    /\ total_pnl < 0

\* the four legs of a fly have a mid in the mapping d
QuotedIn(fly, d) ==
    \A s \in Range(streamer_symbols(fly)) : s \in DOMAIN d /\ ~IsNone(d[s])

\* C11: a mark step leaves the per_if_pnl entry of an open position whose
\* four mids are not all present as it was before the step: the position is
\* skipped and its previous P&L is retained.
C11_SkippedRetainsPnl ==
    [][(pc = "mark" /\ cycle'.kind = "mark") =>
           \A i \in 1..Len(active_flies) :
               (/\ active_flies[i].open
                /\ ~QuotedIn(active_flies[i], data')
                /\ HasKey(per_if_pnl, active_flies[i].body))
                   => /\ HasKey(per_if_pnl', active_flies[i].body)
                      /\ Get(per_if_pnl', active_flies[i].body).pnl
                             = Get(per_if_pnl, active_flies[i].body).pnl]_vars

\* C12: an exit step that finds -total_pnl >= portfolio_stop sets the
\* portfolio flag and marks every key of active_flies, in the order of
\* active_flies, whatever the per-position P&L values are.
C12_PortfolioStopMarksAll ==
    [][(pc = "exit" /\ cycle'.kind = "exit" /\ -total_pnl >= cfg.portfolio_stop)
           => /\ cycle'.portfolio_stop
              /\ cycle'.to_close = KeyList(active_flies)]_vars

\* C12 happens: the portfolio stop fired at its threshold and marked a
\* position that is not beyond its own stop
C12_Witness ==
    /\ cycle.kind = "exit"
    /\ cycle.portfolio_stop
    /\ -total_pnl = cfg.portfolio_stop
    /\ \E i \in 1..Len(cycle.to_close) :
           \/ ~HasKey(per_if_pnl, cycle.to_close[i])
           \/ -Get(per_if_pnl, cycle.to_close[i]).pnl < cfg.per_if_stop

\* the open positions whose P&L of the last mark is a loss of at least the
\* per-position stop
Stopped ==
    {b \in Keys(active_flies) :
        /\ Get(active_flies, b).open
        /\ HasKey(per_if_pnl, b)
        /\ -Get(per_if_pnl, b).pnl >= cfg.per_if_stop}

\* C13 as stated: in an exit step where the portfolio stop does not fire, the
\* bodies marked for closing are exactly the open positions whose loss is at
\* least the per-position stop.
C13_MarkedExactlyStopped ==
    [][(pc = "exit" /\ cycle'.kind = "exit" /\ -total_pnl < cfg.portfolio_stop)
           => Range(cycle'.to_close) = Stopped]_vars

\* C13 amended: in such a step the marked bodies that are open positions are
\* exactly the open positions whose loss is at least the per-position stop,
\* every order of the step is a closing order for one of them, and the
\* portfolio flag is not set; entry credit 3.20, close cost 8.30 and a stop
\* of 5.00 give a P&L of -5.10, which is marked.
C13_MarkedOpenStopped ==
    [][(pc = "exit" /\ cycle'.kind = "exit" /\ -total_pnl < cfg.portfolio_stop)
           => /\ Range(cycle'.to_close) \cap Keys(active_flies) = Stopped
              /\ \A i \in 1..Len(cycle'.orders) :
                     /\ cycle'.orders[i].kind = "close"
                     /\ cycle'.orders[i].body \in Stopped
              /\ ~cycle'.portfolio_stop
              /\ evaluate_exit_rules(<< >>, <<[body |-> 6380, pnl |-> 320 - 830]>>,
                                     320 - 830,
                                     [cfg EXCEPT !.per_if_stop = 500]).to_close
                     = <<6380>>]_vars

\* C13 happens: a per-position exit step marked one position and sent its
\* closing order while another priced position stayed below its stop
C13_Witness ==
    /\ version = "v2"
    /\ cycle.kind = "exit"
    /\ ~cycle.portfolio_stop
    /\ Len(cycle.to_close) = 1
    /\ \E i \in 1..Len(cycle.orders) : cycle.orders[i].body = cycle.to_close[1]
    /\ \E i \in 1..Len(per_if_pnl) :
           /\ -per_if_pnl[i].pnl < cfg.per_if_stop
           /\ HasKey(active_flies, per_if_pnl[i].body)

\* C14: an order the gateway rejected changes nothing: after the step that
\* sent it, a rejected opening order's body is not in active_flies, and a
\* rejected closing order's position is still in active_flies with open =
\* TRUE and is not in closed_flies.
C14_RejectedLeavesState ==
    \A i \in 1..Len(cycle.orders) :
        LET o == cycle.orders[i]
        IN  ~o.accepted =>
                /\ o.kind = "open" => ~HasKey(active_flies, o.body)
                /\ o.kind = "close" =>
                       /\ HasKey(active_flies, o.body)
                       /\ Get(active_flies, o.body).open
                       /\ o.body \notin DOMAIN closed_flies

\* a close_if call of the last step whose mids_for_symbols left a leg of the
\* position without a mid
Unpriced(a) == \E leg \in {"cs", "cl", "ps", "pl"} : IsNone(a.mids[leg])

\* C15: a close_if call that finds a leg of the position without a mid sends
\* no order for it and leaves the position in active_flies with open = TRUE,
\* where the next mark and the next exit rules read it again.
C15_UnpricedCloseDeferred ==
    (version = "v2" /\ cycle.kind = "exit") =>
        \A i \in 1..Len(cycle.attempts) :
            Unpriced(cycle.attempts[i]) =>
                /\ \A j \in 1..Len(cycle.orders) :
                       cycle.orders[j].body # cycle.attempts[i].body
                /\ HasKey(active_flies, cycle.attempts[i].body)
                /\ Get(active_flies, cycle.attempts[i].body).open
                /\ cycle.attempts[i].body \notin DOMAIN closed_flies

\* C15 happens: a per-position exit step marked a stopped position and
\* deferred its close for want of a mid, next to a position that is not stopped
C15_Witness ==
    /\ version = "v2"
    /\ cycle.kind = "exit"
    /\ ~cycle.portfolio_stop
    /\ Len(active_flies) >= 2
    /\ \E i \in 1..Len(cycle.attempts) :
           /\ Unpriced(cycle.attempts[i])
           /\ cycle.attempts[i].body \in Range(cycle.to_close)
           /\ HasKey(active_flies, cycle.attempts[i].body)
           /\ -Get(per_if_pnl, cycle.attempts[i].body).pnl >= cfg.per_if_stop

\* the four legs of a fly are contracts of the catalog opts: the short call
\* and the short put at body, the long call at body + width and the long put
\* at body - width
FourLegs(fly, opts) ==
    /\ fly.call_short_opt = Opt(fly.body, "C")
    /\ fly.put_short_opt = Opt(fly.body, "P")
    /\ fly.call_long_opt = Opt(fly.body + fly.width, "C")
    /\ fly.put_long_opt = Opt(fly.body - fly.width, "P")
    /\ Range(streamer_symbols(fly)) \subseteq opts
    /\ Cardinality(Range(streamer_symbols(fly))) = 4

\* C16: every IronFly of the last ladder built, of active_flies (placed by an
\* entry, a roll or a rehydration) and of closed_flies has its four legs.
C16_FourLegs ==
    /\ ~IsNone(ladder) =>
           \A i \in 1..Len(Val(ladder)) : FourLegs(Val(ladder)[i], options)
    /\ \A i \in 1..Len(active_flies) : FourLegs(active_flies[i], options)
    /\ \A b \in DOMAIN closed_flies : FourLegs(closed_flies[b], options)

\* C16 happens: a roll resolved and opened a replacement while positions of
\* the ladder were open and one was closed
C16_Witness ==
    /\ cycle.kind = "exit"
    /\ DOMAIN closed_flies # {}
    /\ \E i \in 1..Len(cycle.rolls) :
           /\ cycle.rolls[i].opened
           /\ HasKey(active_flies, cycle.rolls[i].new_body)
           /\ Get(active_flies, cycle.rolls[i].new_body).put_long_opt
                  = Opt(cycle.rolls[i].new_body - cfg.width, "P")
    /\ \E i \in 1..Len(active_flies) : active_flies[i].body = Val(anchor)

\* the contracts construct_ladder asks the catalog for
RequiredContracts(atm, c) ==
    LET bodies == Range(ladder_bodies(atm, c.n_below, c.n_above, c.step))
    IN  UNION {{Opt(b, "C"), Opt(b, "P"), Opt(b + c.width, "C"),
                Opt(b - c.width, "P")} : b \in bodies}

\* C17: once the v2 engine has derived an anchor and called construct_ladder,
\* either every required contract is in the catalog and the ladder has all
\* its rungs, or one is absent and the call raised: there is no ladder, no
\* order was sent, active_flies is empty and entered_today is false.
C17_NoPartialLadder ==
    (version = "v2" /\ ~IsNone(atm_body)) =>
        IF RequiredContracts(Val(atm_body), cfg) \subseteq options
        THEN /\ ~IsNone(ladder)
             /\ Len(Val(ladder)) = cfg.n_below + cfg.n_above + 1
        ELSE /\ IsNone(ladder)
             /\ pc = "crashed"
             /\ cycle.kind = "entry"
             /\ cycle.orders = << >>
             /\ active_flies = << >>
             /\ ~entered_today

\* C17 happens: the ladder build failed on a rung after the lowest rung's
\* four contracts had been found
C17_Witness ==
    /\ version = "v2"
    /\ pc = "crashed"
    /\ ~IsNone(atm_body)
    /\ ~IsNone(build_if_options(options, Val(atm_body) - cfg.n_below * cfg.step,
                                cfg.width))
    /\ ~(RequiredContracts(Val(atm_body), cfg) \subseteq options)
    /\ active_flies = << >>

\* C18: a start that reads a snapshot whose expiry is not today's leaves
\* active_flies empty and entered_today false, goes on to the entry step, and
\* leaves a state.json for today that lists no position.
C18_StaleSnapshotIsEmpty ==
    (/\ cycle.kind = "start"
     /\ cycle.found
     /\ Val(cycle.loaded).expiry # Some(Today))
        => /\ active_flies = << >>
           /\ ~entered_today
           /\ pc = "entry"
           /\ halt = "no"
           /\ expiry = Some(Today)
           /\ Val(disk).expiry = Some(Today)
           /\ Val(disk).active_flies = << >>

\* C18 happens: the start read a snapshot of another day that lists two
\* positions the catalog still resolves
C18_Witness ==
    /\ cycle.kind = "start"
    /\ cycle.found
    /\ Val(cycle.loaded).expiry = Some(Yesterday)
    /\ Len(Val(cycle.loaded).active_flies) >= 2
    /\ \A i \in 1..Len(Val(cycle.loaded).active_flies) :
           ~IsNone(build_if_options(options, Val(cycle.loaded).active_flies[i].body,
                                    Val(cycle.loaded).active_flies[i].width))
    /\ active_flies = << >>

\* the positions of a snapshot whose four contracts the catalog opts lists
Resolvable(items, opts) ==
    SelectSeq(items, LAMBDA it : ~IsNone(build_if_options(opts, it.body, it.width)))

\* C19: a start that rehydrates a snapshot of today restores exactly the
\* positions whose four contracts are in the catalog, in the snapshot's
\* order and with its widths, quantities and entry credits, and goes on to
\* the entry step.
C19_DropOnlyUnresolved ==
    (cycle.kind = "start" /\ snapshot_entered(Val(cycle.loaded)))
        => /\ positions(active_flies)
                  = Resolvable(Val(cycle.loaded).active_flies, options)
           /\ entered_today = (active_flies # << >>)
           /\ pc = "entry"

\* C19 happens: the legs of the second of three positions of the snapshot
\* were not found, and the first and the third were restored
C19_Witness ==
    /\ cycle.kind = "start"
    /\ snapshot_entered(Val(cycle.loaded))
    /\ Len(Val(cycle.loaded).active_flies) = 3
    /\ IsNone(build_if_options(options, Val(cycle.loaded).active_flies[2].body,
                               Val(cycle.loaded).active_flies[2].width))
    /\ KeyList(active_flies) = <<Val(cycle.loaded).active_flies[1].body,
                                 Val(cycle.loaded).active_flies[3].body>>

C21_RoundTrip ==
    (/\ cycle.kind = "start"
     /\ cycle.found
     /\ Val(cycle.loaded).expiry = Some(Today)
     /\ Resolvable(Val(cycle.loaded).active_flies, options)
            = Val(cycle.loaded).active_flies)
        => /\ entered_today = Val(cycle.loaded).entered_today
           /\ expiry = Val(cycle.loaded).expiry
           /\ total_pnl = Val(cycle.loaded).total_pnl

\* C22: mids_for_symbols is a latched read.  No step of a call changes the
\* bid, ask or mid of a symbol that has its quote, whatever quote events are
\* read later, and a step records the quote of at most one symbol, one that
\* had none, counting it once.
C22_LatchedRead ==
    [][/\ \A s \in DOMAIN data :
              data[s].has_quote
                  => /\ data'[s].has_quote
                     /\ data'[s].bid = data[s].bid
                     /\ data'[s].ask = data[s].ask
                     /\ data'[s].mid = data[s].mid
       /\ cycle'.quotes_collected - cycle.quotes_collected
              = Cardinality({s \in DOMAIN data :
                                 ~data[s].has_quote /\ data'[s].has_quote})
       /\ cycle'.quotes_collected - cycle.quotes_collected <= 1]_vars

\* C22 happens: the call returned after it read, for a symbol that had its
\* quote, a quote event with other prices, and a symbol still shows the
\* two-sided quote 1.95 / 2.05 it recorded
C22_Witness ==
    /\ version = "mids"
    /\ pc = "done"
    /\ ~cycle.raised
    /\ cycle.late
    /\ \E s \in DOMAIN data :
           /\ data[s].has_quote
           /\ data[s].bid = Some(195)
           /\ data[s].mid = Some(200)

\* every requested symbol has its quote, and its greeks when greeks are
\* subscribed
Satisfied ==
    /\ \A s \in DOMAIN data : data[s].has_quote
    /\ cycle.greeks_available => \A s \in DOMAIN data : data[s].has_greeks

\* C23: a call of mids_for_symbols returns on every event stream.  It goes
\* round the loop only while some symbol lacks data and fewer than
\* max_quote_timeouts consecutive iterations brought nothing new; when it
\* returns without a streaming error, every symbol is satisfied or exactly
\* max_quote_timeouts consecutive iterations brought nothing new.
C23_Terminates ==
    /\ [](/\ pc = "quote" =>
                ~Satisfied /\ cycle.timeouts < cfg.max_quote_timeouts
          /\ (pc = "done" /\ ~cycle.raised) =>
                Satisfied \/ cycle.timeouts = cfg.max_quote_timeouts)
    /\ <>(pc = "done")

\* C23 happens: a call with greeks subscribed returned after
\* max_quote_timeouts empty iterations, with one symbol quoted and the other
\* not
C23_Witness ==
    /\ version = "mids"
    /\ pc = "done"
    /\ ~cycle.raised
    /\ cycle.greeks_available
    /\ cycle.timeouts = cfg.max_quote_timeouts
    /\ cycle.quotes_collected = 1
    /\ \E s \in DOMAIN data : ~data[s].has_quote

\* C24: in out, at every point of a call, the mid of a symbol is set only if
\* its bid and its ask are both present, and is then a multiple of 0.05 at
\* most half a nickel away from (bid + ask) / 2; a symbol without a bid or
\* without an ask has the mid None.
C24_MidNeedsBothSides ==
    version = "mids" =>
        \A s \in DOMAIN data :
            IF IsNone(data[s].bid) \/ IsNone(data[s].ask)
            THEN IsNone(data[s].mid)
            ELSE /\ data[s].has_quote
                 /\ ~IsNone(data[s].mid)
                 /\ Val(data[s].mid) % 5 = 0
                 /\ Abs(2 * Val(data[s].mid)
                            - (Val(data[s].bid) + Val(data[s].ask))) <= 5

\* C24 happens: the call returned with one symbol quoted on both sides, its
\* mid 2.00 between 1.95 and 2.05, and another quoted without a bid, its mid
\* None
C24_Witness ==
    /\ version = "mids"
    /\ pc = "done"
    /\ ~cycle.raised
    /\ \E s, t \in DOMAIN data :
           /\ data[s].bid = Some(195) /\ data[s].ask = Some(205)
           /\ data[s].mid = Some(200)
           /\ data[t].has_quote /\ IsNone(data[t].bid)
           /\ data[t].ask = Some(205) /\ IsNone(data[t].mid)

\* the mids of out, as if_mid_credit reads them
mids_of(out) == [s \in DOMAIN out |-> out[s].mid]

\* C25: greeks are best-effort.  In a call whose greeks subscription failed,
\* or in which some symbol has no greeks, every symbol for which a quote event
\* with a bid or an ask was read has its quote recorded, with a mid when both
\* sides are present; and when the four legs have their mids the credit of
\* the position is computed from them.
C25_GreeksBestEffort ==
    (/\ version = "mids"
     /\ (~cycle.greeks_available \/ \E s \in DOMAIN data : ~data[s].has_greeks))
        => /\ \A s \in cycle.arrived :
                  /\ data[s].has_quote
                  /\ (~IsNone(data[s].bid) /\ ~IsNone(data[s].ask))
                         => ~IsNone(data[s].mid)
           /\ (\A s \in DOMAIN data : ~IsNone(data[s].mid))
                  => if_mid_credit(QuotedFly, mids_of(data))
                         = Some(round_to_nickel(
                               (Val(data[QuotedFly.call_short_opt].mid)
                                    + Val(data[QuotedFly.put_short_opt].mid))
                               - (Val(data[QuotedFly.call_long_opt].mid)
                                    + Val(data[QuotedFly.put_long_opt].mid))))

\* C25 happens: the greeks subscription failed, no symbol has greeks, and
\* the call returned without a timeout with the four legs quoted on both
\* sides, so that the position is priced
C25_Witness ==
    /\ version = "mids"
    /\ pc = "done"
    /\ ~cycle.raised
    /\ ~cycle.greeks_available
    /\ cycle.timeouts = 0
    /\ \A s \in DOMAIN data : ~data[s].has_greeks /\ ~IsNone(data[s].mid)
    /\ cycle.arrived = DOMAIN data
    /\ ~IsNone(if_mid_credit(QuotedFly, mids_of(data)))

\* C25 happens as well with greeks subscribed: the call gave up after
\* max_quote_timeouts empty iterations with every quote and no greek event
C25_WitnessNoGreekEvent ==
    /\ version = "mids"
    /\ pc = "done"
    /\ ~cycle.raised
    /\ cycle.greeks_available
    /\ cycle.greeks_collected = 0
    /\ cycle.timeouts = cfg.max_quote_timeouts
    /\ \A s \in DOMAIN data : ~IsNone(data[s].mid)

\* C26: the anchor run() derives is on the 5-point grid: it is a multiple of
\* 5, and rounding it to the grid again returns it (rounding is idempotent
\* and leaves a grid-aligned value unchanged); derived from the underlying's
\* price it is the multiple of 5 nearest to the price.
C26_GridRounding ==
    (version = "anchor" /\ pc = "done")
        => /\ Val(atm_body) % 5 = 0
           /\ get_underlying_spot_mark_rounded5(Some(Val(atm_body) * 100)) = atm_body
           /\ ~IsNone(observed[1])
                  => /\ atm_body = get_underlying_spot_mark_rounded5(observed[1])
                     /\ Abs(Val(atm_body) * 100 - Val(observed[1])) <= 250

\* the catalog lists no expiration of the session date or later
NoUsableExpiration(exps) == \A d \in exps : DayNo(d) < DayNo(Today)

\* C27: when the catalog lists no expiration for the session date (none of
\* today or later), the start of the engine fails: run() ends before its
\* loop, no expiration is selected, no ladder is built and no position or
\* order exists.
C27_NoExpirationFailsStartup ==
    (/\ version \in {"v2", "not_used"}
     /\ cycle.kind \in {"start", "abort"}
     /\ NoUsableExpiration(cycle.exps))
        => /\ pc \in {"done", "crashed"}
           /\ IsNone(cycle.picked)
           /\ IsNone(ladder)
           /\ active_flies = << >>
           /\ cycle.orders = << >>

\* the expirations of the catalog after the session date
FutureExpirations(exps) == {d \in exps : DayNo(d) > DayNo(Today)}

\* the earliest of a non-empty set of dates
Nearest(S) == CHOOSE d \in S : \A e \in S : DayNo(d) <= DayNo(e)

\* C28 as stated: the start selects today's expiration if the catalog lists
\* it, else the nearest future one.
C28_SameDayElseNearestFuture ==
    (version \in {"v2", "not_used"} /\ cycle.kind \in {"start", "abort"})
        => IF Today \in cycle.exps THEN cycle.picked = Some(Today)
           ELSE FutureExpirations(cycle.exps) # {}
                    => cycle.picked = Some(Nearest(FutureExpirations(cycle.exps)))

\* C28 amended: the start selects today's expiration if the catalog lists it
\* and goes on to the loop.  Otherwise the v2 engine selects none and run()
\* returns, and the rolling engine selects the nearest future expiration when
\* there is one.
C28_SameDayElseByEngine ==
    (version \in {"v2", "not_used"} /\ cycle.kind \in {"start", "abort"})
        => IF Today \in cycle.exps
           THEN cycle.picked = Some(Today) /\ pc = "entry"
           ELSE IF version = "v2"
           THEN IsNone(cycle.picked) /\ pc = "done"
           ELSE FutureExpirations(cycle.exps) # {}
                    => /\ cycle.picked
                              = Some(Nearest(FutureExpirations(cycle.exps)))
                       /\ pc = "entry"

\* C28 happens: the rolling engine started with a catalog that lists an
\* expired, tomorrow's and a later expiration and selected tomorrow's
C28_Witness ==
    /\ version = "not_used"
    /\ cycle.kind = "start"
    /\ cycle.exps = {Yesterday, Tomorrow, Later}
    /\ cycle.picked = Some(Tomorrow)
    /\ pc = "entry"

\* C28 happens in the v2 engine: today's expiration is selected among an
\* expired and a future one
C28_WitnessToday ==
    /\ version = "v2"
    /\ cycle.kind = "start"
    /\ cycle.exps = {Yesterday, Today, Tomorrow}
    /\ cycle.picked = Some(Today)

\* C29: the engines run with Config's default dry_run = True, and every
\* order of a step, whether it opens a position of the ladder, closes a
\* position or opens the replacement of a roll, is placed with dry_run set.
C29_DryRunOrders ==
    version \in {"v2", "not_used"} =>
        /\ cfg.dry_run
        /\ \A i \in 1..Len(cycle.orders) : cycle.orders[i].dry_run

\* C29 happens: an exit step of the rolling engine placed a closing order and
\* the opening order of the replacement, both dry
C29_Witness ==
    /\ version = "not_used"
    /\ cycle.kind = "exit"
    /\ cycle.rolls # << >>
    /\ \E i, j \in 1..Len(cycle.orders) :
           /\ cycle.orders[i].kind = "close" /\ cycle.orders[i].dry_run
           /\ cycle.orders[j].kind = "open" /\ cycle.orders[j].dry_run
           /\ cycle.orders[j].accepted

\* C29 happens in the v2 engine: the ladder was entered with dry orders only
C29_WitnessEntry ==
    /\ version = "v2"
    /\ cycle.kind = "entry"
    /\ Len(cycle.orders) = Rungs
    /\ \A i \in 1..Len(cycle.orders) :
           cycle.orders[i].kind = "open" /\ cycle.orders[i].dry_run

\* the strict form YYYY-MM-DD of a date the calendar has: four digits, a
\* dash, two digits, a dash, two digits
IsIsoDate(s) ==
    /\ Len(s) = 10
    /\ \A i \in {1, 2, 3, 4, 6, 7, 9, 10} : IsDigit(s[i])
    /\ s[5] = "-" /\ s[8] = "-"
    /\ LET y == 1000 * DigitVal(s[1]) + 100 * DigitVal(s[2])
                      + 10 * DigitVal(s[3]) + DigitVal(s[4])
           mo == 10 * DigitVal(s[6]) + DigitVal(s[7])
           d == 10 * DigitVal(s[9]) + DigitVal(s[10])
       IN  y >= 1 /\ mo \in 1..12 /\ d >= 1 /\ d <= DaysInMonth(y, mo)

\* the file a download request asks for
MappedFile(req) ==
    <<DATA_BASE_DIR, req.date, STRATEGY_FOLDER,
      IF req.file_type = "pnl" THEN "pnl.csv" ELSE "quotes.csv">>

\* C30: a download request is answered valid exactly when its date is a
\* YYYY-MM-DD date, its file type is pnl or quotes and the mapped file
\* exists under the data directory for that date, and then with the path of
\* that file; every other request is rejected with an empty file path and a
\* non-empty error message
C30_DownloadValidation ==
    (version = "download" /\ pc = "done") =>
        /\ cycle.is_valid <=> /\ IsIsoDate(data.date)
                              /\ data.file_type \in {"pnl", "quotes"}
                              /\ MappedFile(data) \in disk
        /\ cycle.is_valid => /\ cycle.file_path = MappedFile(data)
                             /\ cycle.error_message = ""
        /\ ~cycle.is_valid => /\ cycle.file_path = << >>
                              /\ cycle.error_message # ""
                              /\ cycle.status = 404

\* a request for a well-formed date and an allowed type whose file is
\* missing has been rejected
C30_Witness ==
    /\ version = "download" /\ pc = "done"
    /\ IsIsoDate(data.date)
    /\ data.file_type = "quotes"
    /\ MappedFile(data) \notin disk
    /\ ~cycle.is_valid
    /\ cycle.file_path = << >>

\* a request whose file exists has been accepted
C30_WitnessValid ==
    /\ version = "download" /\ pc = "done"
    /\ data.file_type = "pnl"
    /\ cycle.is_valid
    /\ cycle.file_path \in disk

\* a date strptime reads although it is not zero-padded has been rejected
\* because no folder has that name
C30_WitnessUnpadded ==
    /\ version = "download" /\ pc = "done"
    /\ ~IsIsoDate(data.date)
    /\ ~IsNone(strptime(data.date))
    /\ data.file_type = "pnl"
    /\ cycle.error_message = "File not found for date."

\* quotes arrive: the mark of the cycle priced every open position
MarksArrive ==
    cycle.kind = "mark" =>
        \A i \in 1..Len(active_flies) :
            active_flies[i].open => HasKey(per_if_pnl, active_flies[i].body)

\* quotes arrive and the gateway accepts: every close_if call of the cycle
\* closed its position
ClosesSucceed ==
    cycle.kind = "exit" =>
        \A i \in 1..Len(cycle.attempts) :
            ~HasKey(active_flies, cycle.attempts[i].body)

\* C31: once the portfolio stop has fired and positions are still open (a
\* close was deferred or rejected), every one of them is closed in the end,
\* whatever the aggregate P&L of the positions still open, provided that
\* from then on the quotes arrive and the gateway accepts.
C31_StopClosesEverything ==
    []((halt = "fired" /\ [](MarksArrive /\ ClosesSucceed)) => <>(halt = "halted"))

\* every rung of the ladder run() built last has been opened (it is in
\* active_flies, or in closed_flies after a stop)
LadderOpened ==
    /\ ~IsNone(ladder)
    /\ \A i \in 1..Len(Val(ladder)) :
           Val(ladder)[i].body \in Keys(active_flies) \cup DOMAIN closed_flies

\* the cycle went through the entry block of run(): it placed an order, or it
\* opened nothing and the entry condition still holds
EntryRan ==
    /\ cycle.kind = "entry"
    /\ \/ cycle.orders # << >>
       \/ clock_ok /\ ~entered_today /\ active_flies = << >>

\* quotes are available: an entry block that runs opens every rung
OpensSucceed == EntryRan => LadderOpened

\* the entry block ran, the gateway accepted every order it was sent, and a
\* rung is not opened: open_if could not price it
EntryDeferred ==
    /\ EntryRan
    /\ ~IsNone(ladder)
    /\ ~LadderOpened
    /\ \A i \in 1..Len(cycle.orders) : cycle.orders[i].accepted

\* C32: a rung whose entry could not be priced is attempted again in a later
\* cycle: when from the next cycle on quotes are available, every rung of the
\* ladder is opened in the end.
C32_DeferredEntryRetried ==
    [](EntryDeferred =>
          []((cycle.kind = "mark" /\ []OpensSucceed) => <>LadderOpened))

\* C33: active and closed are disjoint, every position in active is open,
\* every position in closed is not open, and a position that an exit step
\* moved to closed has a closing order the gateway acknowledged in that step.
C33_ClosedAfterAcknowledgement ==
    /\ Keys(active_flies) \cap DOMAIN closed_flies = {}
    /\ \A i \in 1..Len(active_flies) : active_flies[i].open
    /\ \A b \in DOMAIN closed_flies : ~closed_flies[b].open
    /\ cycle.kind = "exit" =>
           \A i \in 1..Len(cycle.attempts) :
               LET b == cycle.attempts[i].body
               IN  (b \in DOMAIN closed_flies /\ ~HasKey(active_flies, b)) =>
                       \E j \in 1..Len(cycle.orders) :
                           /\ cycle.orders[j].kind = "close"
                           /\ cycle.orders[j].body = b
                           /\ cycle.orders[j].accepted

\* the last close of the exit step was followed by a roll whose replacement
\* body, or one of its wings, is not in the catalog
RollStrikeMissing ==
    /\ version = "not_used"
    /\ cycle.kind = "exit"
    /\ cycle.before # << >>
    /\ Len(cycle.rolls) < Len(cycle.before)
    /\ active_flies # << >>
    /\ IsNone(build_if_options(options,
                  roll_new_body(active_flies, cycle.before[Len(cycle.before)].body,
                                cfg.step),
                  cfg.width))

\* C34: when the replacement of a roll is missing from the catalog, only the
\* roll fails: no position is added, no position has fewer than four legs,
\* and the engine goes on to its next cycle with the positions that remain.
C34_MissingStrikeSkipsRoll ==
    RollStrikeMissing =>
        /\ Keys(active_flies) \subseteq cycle.before[Len(cycle.before)].bodies
        /\ \A i \in 1..Len(active_flies) : FourLegs(active_flies[i], options)
        /\ pc = "entry"

\* the roll closed a middle rung: a body strictly between the lowest and the
\* highest body that were open before the close
MiddleRung(r) == MinSet(r.prior) < r.hit_body /\ r.hit_body < MaxSet(r.prior)

\* C35 as stated: after the close of a middle rung the replacement lies
\* beyond the extremity that is nearer to the closed body.
C35_RollTowardNearerExtremity ==
    (version = "not_used" /\ cycle.kind = "exit") =>
        \A i \in 1..Len(cycle.rolls) :
            LET r == cycle.rolls[i]
                lowest == MinSet(r.prior)
                highest == MaxSet(r.prior)
            IN  MiddleRung(r) =>
                    /\ Abs(r.hit_body - lowest) < Abs(r.hit_body - highest)
                           => r.new_body = lowest - cfg.step
                    /\ Abs(r.hit_body - highest) < Abs(r.hit_body - lowest)
                           => r.new_body = highest + cfg.step

\* C35: after the close of a middle rung the replacement lies one step
\* beyond the extremity that is farther from the closed body: beyond the
\* highest body when the closed body is nearer to the lowest, and beyond the
\* lowest body otherwise, an equal distance included.
C35_RollBeyondFartherExtremity ==
    (version = "not_used" /\ cycle.kind = "exit") =>
        \A i \in 1..Len(cycle.rolls) :
            LET r == cycle.rolls[i]
                lowest == MinSet(r.prior)
                highest == MaxSet(r.prior)
            IN  MiddleRung(r) =>
                    r.new_body = IF Abs(r.hit_body - lowest) < Abs(r.hit_body - highest)
                                 THEN highest + cfg.step
                                 ELSE lowest - cfg.step

\* C35 happens: a middle rung nearer to the lowest body was closed and its
\* replacement opened
C35_Witness ==
    /\ version = "not_used"
    /\ cycle.kind = "exit"
    /\ \E i \in 1..Len(cycle.rolls) :
           LET r == cycle.rolls[i]
           IN  /\ MiddleRung(r)
               /\ Abs(r.hit_body - MinSet(r.prior)) < Abs(r.hit_body - MaxSet(r.prior))
               /\ r.opened

\* C36: at the end of every cycle of the v2 engine (after its exit checks)
\* state.json holds the positions of the memory: its open positions are, in
\* order, the keys of active_flies and its closed bodies are the keys of
\* closed_flies.
C36_SnapshotAtCycleEnd ==
    (version = "v2" /\ cycle.kind = "exit") =>
        /\ ~IsNone(disk)
        /\ [i \in 1..Len(Val(disk).active_flies) |-> Val(disk).active_flies[i].body]
               = KeyList(active_flies)
        /\ Range(Val(disk).closed_flies) = DOMAIN closed_flies
        /\ Len(Val(disk).closed_flies) = Cardinality(DOMAIN closed_flies)

\* C36 happens: the cycle closed one position and left another open, and
\* state.json lists both
C36_Witness ==
    /\ version = "v2"
    /\ cycle.kind = "exit"
    /\ cycle.attempts # << >>
    /\ active_flies # << >>
    /\ DOMAIN closed_flies # {}
    /\ ~IsNone(disk)
    /\ Val(disk).closed_flies # << >>
    /\ Val(disk).active_flies # << >>

\* the symbols of the rows pending in the queue
PendingSymbols == {observed[i].event_symbol : i \in 1..Len(observed)}

\* C37: whatever the order of the put and get calls, the queue holds at most
\* one row per symbol, the symbols of its rows are the keys of the symbol
\* map, and a get() returns the row put last for the symbol of the row it
\* took out of the queue.
C37_OnePendingRowPerSymbol ==
    version = "queue" =>
        /\ \A i, j \in 1..Len(observed) :
               observed[i].event_symbol = observed[j].event_symbol => i = j
        /\ PendingSymbols = DOMAIN data
        /\ cycle.kind = "get" =>
               cycle.returned = cycle.latest[cycle.dequeued.event_symbol]

\* C37 happens: a getter that was suspended took out a row whose symbol had
\* been put again in the meantime, and returned the later row
C37_Witness ==
    /\ version = "queue"
    /\ cycle.kind = "get"
    /\ cycle.resumed
    /\ cycle.returned.seq > cycle.dequeued.seq
    /\ observed # << >>

\* C38 as stated: a put whose symbol has a pending entry replaces that entry
\* when the row's bid and ask prices are non-zero, and otherwise adds the row
\* to the queue as a new entry.
C38_ReplaceOnlyNonZero ==
    (version = "queue" /\ cycle.kind = "put" /\ cycle.had) =>
        IF cycle.row.bid_price # 0 /\ cycle.row.ask_price # 0
        THEN /\ data[cycle.row.event_symbol] = cycle.row
             /\ Len(observed) = cycle.qlen
        ELSE /\ Len(observed) = cycle.qlen + 1
             /\ observed[Len(observed)] = cycle.row

\* C39: among the delays slept since the last successful connection each one
\* after the first is twice the one before, up to 60 seconds, and the first
\* one after a successful connection period is 5 seconds.
C39_BackoffDoubles ==
    version = "stream" =>
        /\ \A i \in 2..Len(cycle.slept) :
               cycle.slept[i] = backoff(cycle.slept[i - 1])
        /\ (cycle.periods > 0 /\ cycle.slept # << >>) => cycle.slept[1] = 5

\* C40: the call has ended by re-raising exactly when max_retries connection
\* attempts have failed since the last successful connection; the retry count
\* is the number of those failures, so it is 0 while a connection streams and
\* still 0 when the next attempt follows a connection that went silent or
\* failed while streaming.
C40_GivesUpAfterMaxRetries ==
    version = "stream" =>
        /\ cycle.retry_count = cycle.failed
        /\ (pc = "raised") <=> (cycle.failed = cycle.max_retries)
        /\ (pc = "raised") <=> cycle.raised
        /\ pc = "streaming" => cycle.retry_count = 0
        /\ cycle.kind \in {"silent", "error"} =>
               pc = "connect" /\ cycle.retry_count = 0

\* C40 happens: after a connection period that ended, max_retries attempts
\* in a row failed and the call gave up
C40_Witness ==
    /\ version = "stream"
    /\ pc = "raised"
    /\ cycle.periods > 0
    /\ cycle.max_retries = 3
    /\ cycle.failed = 3

====
